---- MODULE Spec2Model ----
(***************************************************************************)
(* m41nk3y: a deterministic password generator running in a browser page.  *)
(* The model covers the session state kept in the static class Config      *)
(* (userSecret, configKeyAES, services, servicesEncrypted), the rendered   *)
(* service list, and the event handlers of js/m41nk3y.js.  Every handler   *)
(* is cut at its awaits: the code between two awaits is one atomic         *)
(* action, because the page runs handlers on a single thread.              *)
(*                                                                         *)
(* Text is a sequence of one-character strings.  PBKDF2 is not computed:   *)
(* a derived key is the record of the inputs it was derived from, and the  *)
(* 32 bytes PBKDF2-HMAC-SHA-512 gives for them are tabulated for the       *)
(* secrets, names and counts of the model.  A password shown in the list   *)
(* holds the characters getKey synthesizes from these bytes, next to the   *)
(* key and the values of the call it was made from.  The byte-level        *)
(* synthesis of getKey is also exercised by the specification SpecSynth    *)
(* on drawn key bytes.                                                     *)
(*                                                                         *)
(* Conventions:                                                            *)
(*  - A Service object has an identity (its index in recs), because the    *)
(*    listeners of a rendered entry and suspended getKey calls keep a      *)
(*    reference to the object whatever happens to Config.services.         *)
(*  - Every await is a suspension of its own: the page load handler        *)
(*    awaits fetch and then response.text(), getKey awaits deriveKey and   *)
(*    then exportKey, encryptConfig awaits encrypt before the download.    *)
(*  - A promise of crypto.subtle may resolve in any order with the others. *)
(*    A call of crypto.subtle.deriveKey whose arguments are refused (no    *)
(*    CryptoKey, a count that is no unsigned long) returns a promise that  *)
(*    is rejected already: the awaits on it throw in the turn of the call, *)
(*    which ends in the catch of decryptConfig or rejects the handler's    *)
(*    promise.  The count 0 is refused by the derivation, a turn later.    *)
(*  - AES-256 in CBC mode is computed byte by byte (FIPS 197 with the      *)
(*    PKCS#7 padding), so a ciphertext depends on the key, the init vector *)
(*    and the plaintext, and a decryption under another key or of edited   *)
(*    bytes gives what the cipher gives; decrypt checks the padding of the *)
(*    last block and nothing else.  The response of the fetch is the text  *)
(*    of an exported file: the session (Spec) loads the files of every     *)
(*    payload, and SpecLoad is the same session on exported files under    *)
(*    several init vectors and on edited copies of them.                   *)
(*  - The hex codec, the line breaks of the download, UTF-8, the text      *)
(*    JSON.stringify writes and the grammar JSON.parse accepts are         *)
(*    modelled character by character; SpecCodec converts drawn bytes and  *)
(*    hexadecimal texts forth and back.                                    *)
(*  - A value read from the file keeps what JSON.parse gave it: a number,  *)
(*    the text of a string, null or a boolean, and an object keeps the     *)
(*    order of its own keys.  parseInt, the + of line 174 and the          *)
(*    conversion of the iterations member of the PBKDF2 parameters to an   *)
(*    unsigned long are computed on that value.                            *)
(*  - keypress and paste on #m41nk3y run their handler before the browser  *)
(*    changes the value of the field.                                      *)
(*  - index.html is not part of the sources: #decrypt-config starts with   *)
(*    the class btn-danger, the one line 134 replaces.                     *)
(*  - The filter, the QR code, the clipboard and the reset of              *)
(*    #new-service-name are not part of the state.                         *)
(***************************************************************************)
EXTENDS Integers, Sequences, FiniteSets, TLC

VARIABLES
    field,              \* text of the input #m41nk3y
    servicesEncrypted,  \* Config.servicesEncrypted
    loader,             \* await the page load handler is suspended at
    userSecret,         \* Config.userSecret
    configKeyAES,       \* Config.configKeyAES
    recs,               \* heap of Service objects, a record id is its index
    services,           \* Config.services: the array of record ids
    tasks,              \* async invocations suspended at an await
    list,               \* children of .service-list
    label,              \* text of #decrypt-config written by deriveServiceKeys
    nextEid,            \* identity of the next .service-entry element
    buttonClass,        \* btn-danger or btn-success of #decrypt-config
    events,             \* user events so far
    last,               \* what the last step did (observation only)
    synPattern,         \* SpecSynth: service.pattern handed to getKey
    synKey,             \* SpecSynth: keyBytes handed to the synthesis
    synOut,             \* SpecSynth: result of the synthesis
    codecIn,            \* SpecCodec: bytes or hexadecimal text to convert
    codecOut            \* SpecCodec: the conversion and the conversion back

sessionVars == <<field, servicesEncrypted, loader, userSecret, configKeyAES,
                 recs, services, tasks, list, label, buttonClass, nextEid,
                 events, last>>
synVars == <<synPattern, synKey, synOut>>
codecVars == <<codecIn, codecOut>>
vars == <<field, servicesEncrypted, loader, userSecret, configKeyAES, recs,
          services, tasks, list, label, buttonClass, nextEid, events, last,
          synPattern, synKey, synOut,
          codecIn, codecOut>>

-----------------------------------------------------------------------------
(* Bounds of the model.                                                    *)

MaxEvents == 3
MaxTasks == 2
MaxFieldLen == 1
MaxSeed == 5

-----------------------------------------------------------------------------
(* Text.                                                                   *)

\* the line terminators the loader removes
LineFeed == "\n"
CarriageReturn == "\r"

\* the character of code 96, which a string of TLA+ cannot hold
GraveAccent == "U+0060"

\* the characters of ASCII from the space (32) to the tilde (126)
Printable ==
    << " ", "!", "\"", "#", "$", "%", "&", "'", "(", ")", "*", "+", ",", "-",
       ".", "/", "0", "1", "2", "3", "4", "5", "6", "7", "8", "9", ":", ";",
       "<", "=", ">", "?", "@", "A", "B", "C", "D", "E", "F", "G", "H", "I",
       "J", "K", "L", "M", "N", "O", "P", "Q", "R", "S", "T", "U", "V", "W",
       "X", "Y", "Z", "[", "\\", "]", "^", "_", GraveAccent,
       "a", "b", "c", "d", "e",
       "f", "g", "h", "i", "j", "k", "l", "m", "n", "o", "p", "q", "r", "s",
       "t", "u", "v", "w", "x", "y", "z", "{", "|", "}", "~" >>

Tab == "\t"

UpperHexDigits == <<"0", "1", "2", "3", "4", "5", "6", "7", "8", "9",
                    "A", "B", "C", "D", "E", "F">>

\* the name U+XXXX of the UTF-16 code unit code
codeUnitName(code) ==
    "U+" \o UpperHexDigits[(code \div 4096) + 1]
         \o UpperHexDigits[((code \div 256) % 16) + 1]
         \o UpperHexDigits[((code \div 16) % 16) + 1]
         \o UpperHexDigits[(code % 16) + 1]

\* code units that are written by their name
Backspace == "U+0008"
FormFeed == "U+000C"
DeleteChar == "U+007F"
ReplacementChar == "U+FFFD"
ByteOrderMark == "U+FEFF"

\* the character of a UTF-16 code unit: itself for printable ASCII, the tab
\* and the line terminators, its name for every other
charOf(code) ==
    IF code \in 32..126 THEN Printable[code - 31]
    ELSE IF code = 9 THEN Tab
    ELSE IF code = 10 THEN LineFeed
    ELSE IF code = 13 THEN CarriageReturn
    ELSE codeUnitName(code)

\* the control characters U+0000 to U+001F
ControlChars == {charOf(code) : code \in 0..31}

\* the code of each character of Printable
PrintableCode ==
    [c \in {Printable[i] : i \in 1..Len(Printable)} |->
        (CHOOSE i \in 1..Len(Printable) : Printable[i] = c) + 31]

\* the code unit of a character
codeOf(c) ==
    IF c \in DOMAIN PrintableCode THEN PrintableCode[c]
    ELSE CHOOSE code \in 0..65535 : charOf(code) = c

\* the code units of WhiteSpace and LineTerminator: what trim, parseInt and
\* the conversion of a string to a number skip
WhiteSpaceCodes ==
    {9, 10, 11, 12, 13, 32, 160, 5760, 8232, 8233, 8239, 8287, 12288, 65279}
    \cup 8192..8202

WhiteSpaceChars == {charOf(code) : code \in WhiteSpaceCodes}

IsWhitespace(c) == c \in WhiteSpaceChars

\* \w of the regular expression in the add handler: [A-Za-z0-9_]
IsWordChar(c) ==
    /\ c \in DOMAIN PrintableCode
    /\ PrintableCode[c] \in (48..57) \cup (65..90) \cup {95} \cup (97..122)

RECURSIVE TrimStart(_)
TrimStart(s) ==
    IF s # <<>> /\ IsWhitespace(Head(s)) THEN TrimStart(Tail(s)) ELSE s

RECURSIVE TrimEnd(_)
TrimEnd(s) ==
    IF s # <<>> /\ IsWhitespace(s[Len(s)])
    THEN TrimEnd(SubSeq(s, 1, Len(s) - 1))
    ELSE s

\* String.prototype.trim
Trim(s) == TrimEnd(TrimStart(s))

\* a < b on strings: lexicographic by code unit, a proper prefix is smaller
RECURSIVE StrLess(_, _)
StrLess(a, b) ==
    IF b = <<>> THEN FALSE
    ELSE IF a = <<>> THEN TRUE
    ELSE IF codeOf(Head(a)) < codeOf(Head(b)) THEN TRUE
    ELSE IF codeOf(Head(a)) > codeOf(Head(b)) THEN FALSE
    ELSE StrLess(Tail(a), Tail(b))

MatchesAnyWord(s) == \E i \in 1..Len(s) : IsWordChar(s[i])

\* null !== value.match(/\w+[.]\w+/): some word character, a dot, a word character
MatchesServiceName(s) ==
    \E i \in 1..(Len(s) - 2) :
        IsWordChar(s[i]) /\ s[i + 1] = "." /\ IsWordChar(s[i + 2])

-----------------------------------------------------------------------------
(* js/patterns.js                                                          *)

Vowels == <<"a", "e", "i", "o", "u">>
Consonants == <<"b", "c", "d", "f", "g", "h", "j", "k", "l", "m", "n", "p",
                "q", "r", "s", "t", "v", "w", "x", "y", "z">>
Digits == <<"0", "1", "2", "3", "4", "5", "6", "7", "8", "9">>
Symbols == <<"!", "#", "$", "%", "*", "@">>

LowerLetters == <<"a", "b", "c", "d", "e", "f", "g", "h", "i", "j", "k", "l",
                  "m", "n", "o", "p", "q", "r", "s", "t", "u", "v", "w", "x",
                  "y", "z">>
UpperLetters == <<"A", "B", "C", "D", "E", "F", "G", "H", "I", "J", "K", "L",
                  "M", "N", "O", "P", "Q", "R", "S", "T", "U", "V", "W", "X",
                  "Y", "Z">>

UpperChar(c) ==
    IF \E i \in 1..Len(LowerLetters) : LowerLetters[i] = c
    THEN UpperLetters[CHOOSE i \in 1..Len(LowerLetters) : LowerLetters[i] = c]
    ELSE c

\* String.prototype.toUpperCase
ToUpperCase(s) == [i \in 1..Len(s) |-> UpperChar(s[i])]

\* Object.getOwnPropertyNames(Patterns.templates), in declaration order
PatternKeys == <<"c16", "c12", "c8", "y16", "n6", "n5", "n4">>

DeclaredPatterns == {PatternKeys[i] : i \in 1..Len(PatternKeys)}

\* Patterns.templates[p]; <<>> stands for undefined (p is not a property)
templates(p) ==
    CASE p = "c16" -> <<
           <<"a", "A", "n", "o", "x", "x", "x", "x", "x", "x", "x", "x", "x", "x", "x", "a">>,
           <<"a", "x", "x", "x", "x", "x", "x", "x", "x", "x", "x", "x", "A", "n", "o", "a">>,
           <<"a", "x", "x", "A", "x", "x", "n", "x", "x", "o", "x", "x", "x", "x", "x", "a">>,
           <<"a", "x", "x", "x", "n", "x", "x", "x", "o", "x", "x", "x", "A", "x", "x", "a">> >>
      [] p = "c12" -> <<
           <<"a", "A", "n", "o", "x", "x", "x", "x", "x", "x", "x", "a">>,
           <<"a", "x", "x", "x", "x", "x", "x", "x", "A", "n", "o", "a">>,
           <<"a", "x", "A", "x", "n", "x", "o", "x", "x", "x", "x", "a">>,
           <<"a", "x", "x", "n", "x", "x", "o", "x", "x", "A", "x", "a">> >>
      [] p = "c8" -> <<
           <<"a", "A", "n", "o", "x", "x", "x", "a">>,
           <<"a", "x", "n", "x", "A", "x", "o", "a">>,
           <<"a", "x", "x", "o", "A", "n", "x", "a">>,
           <<"a", "x", "x", "x", "n", "o", "A", "a">> >>
      [] p = "y16" -> <<
           <<"a", "A", "n", "y", "y", "y", "y", "y", "y", "y", "y", "y", "y", "y", "y", "a">>,
           <<"a", "y", "y", "y", "y", "y", "y", "y", "y", "y", "y", "y", "A", "n", "y", "a">>,
           <<"a", "y", "y", "A", "y", "y", "n", "y", "y", "y", "y", "y", "y", "y", "y", "a">>,
           <<"a", "y", "y", "y", "n", "y", "y", "y", "y", "y", "y", "y", "A", "y", "y", "a">> >>
      [] p = "n6" -> << <<"n", "n", "n", "n", "n", "n">> >>
      [] p = "n5" -> << <<"n", "n", "n", "n", "n">> >>
      [] p = "n4" -> << <<"n", "n", "n", "n">> >>
      [] OTHER -> <<>>

keycharactersOfYWithSymbols(c) ==
    CASE c = "V" -> ToUpperCase(Vowels)
      [] c = "C" -> ToUpperCase(Consonants)
      [] c = "v" -> Vowels
      [] c = "c" -> Consonants
      [] c = "A" -> ToUpperCase(Vowels) \o ToUpperCase(Consonants)
      [] c = "a" -> Vowels \o Consonants
      [] c = "n" -> Digits
      [] c = "o" -> Symbols
      [] c \in {"x", "y"} ->
            ToUpperCase(Vowels) \o ToUpperCase(Consonants) \o Vowels
                \o Consonants \o Digits \o Symbols
      [] c = " " -> <<" ">>
      [] OTHER -> <<>>

\* Patterns.keycharacters[c]; <<>> stands for undefined
keycharacters(c) ==
    CASE c = "V" -> ToUpperCase(Vowels)
      [] c = "C" -> ToUpperCase(Consonants)
      [] c = "v" -> Vowels
      [] c = "c" -> Consonants
      [] c = "A" -> ToUpperCase(Vowels) \o ToUpperCase(Consonants)
      [] c = "a" -> Vowels \o Consonants
      [] c = "n" -> Digits
      [] c = "o" -> Symbols
      [] c = "x" -> ToUpperCase(Vowels) \o ToUpperCase(Consonants) \o Vowels
                      \o Consonants \o Digits \o Symbols
      [] c = "y" -> ToUpperCase(Vowels) \o ToUpperCase(Consonants) \o Vowels
                      \o Consonants \o Digits
      [] c = " " -> <<" ">>
      [] OTHER -> <<>>

-----------------------------------------------------------------------------
(* getKey, lines 176-183: from the exported key bytes to the password.     *)

\* the JS value undefined of service.pattern
Absent == "<absent>"

\* keyBytes[i] of a Uint8Array, i counted from 0; -1 stands for undefined
ByteAt(keyBytes, i) == IF i < Len(keyBytes) THEN keyBytes[i + 1] ELSE -1

\* x % n of JS numbers; -1 stands for NaN (undefined % n)
JsMod(x, n) == IF x < 0 \/ n = 0 THEN -1 ELSE x % n

\* array[i] or string[i], i counted from 0; <<>> stands for undefined
ElemAt(s, i) == IF i >= 0 /\ i < Len(s) THEN <<s[i + 1]>> ELSE <<>>

defaultPatternForUndeclared(pattern) ==
    IF pattern \notin DeclaredPatterns THEN PatternKeys[1] ELSE pattern

defaultPatternLastKey(pattern) ==
    IF pattern = Absent THEN PatternKeys[Len(PatternKeys)] ELSE pattern

\* if (service.pattern === undefined) service.pattern = first declared key
defaultPattern(pattern) == IF pattern = Absent THEN PatternKeys[1] ELSE pattern

mapCharacterNoOffset(keyBytes, c, i) ==
    LET characters == keycharacters(c)
    IN  ElemAt(characters, JsMod(ByteAt(keyBytes, i), Len(characters)))

mapCharacterNoModulo(keyBytes, c, i) ==
    ElemAt(keycharacters(c), ByteAt(keyBytes, i + 1))

\* the callback of template.split("").map: one character, or undefined (<<>>)
mapCharacter(keyBytes, c, i) ==
    LET characters == keycharacters(c)
    IN  ElemAt(characters, JsMod(ByteAt(keyBytes, i + 1), Len(characters)))

\* Array.prototype.join(""): undefined elements contribute the empty string
RECURSIVE join(_)
join(parts) == IF parts = <<>> THEN <<>> ELSE Head(parts) \o join(Tail(parts))

\* lines 177-183; error "TypeError" when templateClass or template is undefined
synthesize(keyBytes, servicePattern) ==
    LET pattern == defaultPattern(servicePattern)
        templateClass == templates(pattern)
        picked == IF templateClass = <<>> THEN <<>>
                  ELSE ElemAt(templateClass,
                              JsMod(ByteAt(keyBytes, 0), Len(templateClass)))
    IN  IF picked = <<>>
        THEN [error |-> "TypeError", password |-> <<>>]
        ELSE LET template == picked[1]
             IN  [error |-> "none",
                  password |-> join([i \in 1..Len(template) |->
                                    mapCharacter(keyBytes, template[i], i - 1)])]

-----------------------------------------------------------------------------
(* Values.                                                                 *)

NoKey == [t |-> "undefined", secret |-> <<>>, salt |-> <<>>, count |-> 0]

\* crypto.subtle.importKey("raw", encodeFromText(text), "PBKDF2", ...)
importKey(text) == [t |-> "PBKDF2", secret |-> text, salt |-> <<>>, count |-> 0]

\* deriveKey, lines 289-301: PBKDF2 of the main key with the salt and the
\* iteration count.  The promise is returned rejected with a TypeError when
\* mainKey is no CryptoKey or the count is no unsigned long (here -1), and
\* PBKDF2 fails later with an OperationError on the count 0
deriveKey(mainKey, salt, iterations) ==
    IF mainKey.t # "PBKDF2" \/ iterations < 0
    THEN [t |-> "rejected", secret |-> <<>>, salt |-> salt, count |-> iterations]
    ELSE IF iterations = 0
    THEN [t |-> "failed", secret |-> <<>>, salt |-> salt, count |-> iterations]
    ELSE [t |-> "AES", secret |-> mainKey.secret, salt |-> salt, count |-> iterations]

\* the error a promise of deriveKey is rejected with
deriveKeyError(key) ==
    CASE key.t = "rejected" -> "TypeError"
      [] key.t = "failed" -> "OperationError"
      [] OTHER -> "none"

ConfigSalt == <<"c", "o", "n", "f", "i", "g">>
ConfigIterations == 1000
ServiceIterationsBase == 1000

-----------------------------------------------------------------------------
(* Config (serviceconfig.js): operations on an array a of record ids over  *)
(* the heap h.                                                             *)

\* stable insertion by the comparator of sortServices: id goes before the
\* first element whose name is greater
RECURSIVE InsertByName(_, _, _)
InsertByName(h, sorted, id) ==
    IF sorted = <<>> THEN <<id>>
    ELSE IF StrLess(h[id].name, h[Head(sorted)].name) THEN <<id>> \o sorted
    ELSE <<Head(sorted)>> \o InsertByName(h, Tail(sorted), id)

RECURSIVE SortFrom(_, _, _)
SortFrom(h, done, rest) ==
    IF rest = <<>> THEN done
    ELSE SortFrom(h, InsertByName(h, done, Head(rest)), Tail(rest))

sortServicesSkipped(h, a) == a

\* Config.sortServices: Array.prototype.sort (stable) with the name comparator
sortServices(h, a) == SortFrom(h, <<>>, a)

\* the duplicate check of Config.addService, lines 23-28
hasService(h, a, candidate) == \E i \in 1..Len(a) : h[a[i]].name = candidate

RECURSIVE removeFirstNamed(_, _, _)
removeFirstNamed(h, a, name) ==
    IF a = <<>> THEN <<>>
    ELSE IF h[Head(a)].name = name THEN Tail(a)
    ELSE <<Head(a)>> \o removeFirstNamed(h, Tail(a), name)

\* Config.removeService: keeps, in order, the records whose name differs
removeService(h, a, name) == SelectSeq(a, LAMBDA id : h[id].name # name)

-----------------------------------------------------------------------------
(* js/convert.js and js/download.js: bytes, hexadecimal text and lines.    *)

Min(a, b) == IF a < b THEN a ELSE b

HexDigits == <<"0", "1", "2", "3", "4", "5", "6", "7", "8", "9",
               "a", "b", "c", "d", "e", "f">>

\* byteArray[i].toString(16) with the leading zero of line 57
hexByte(b) == <<HexDigits[(b \div 16) + 1], HexDigits[(b % 16) + 1]>>

\* Converter.decodeToHexString
decodeToHexString(bytes) ==
    [i \in 1..(2 * Len(bytes)) |-> hexByte(bytes[(i + 1) \div 2])[2 - (i % 2)]]

HexValueDecimal(c) ==
    IF \E i \in 1..10 : HexDigits[i] = c
    THEN (CHOOSE i \in 1..10 : HexDigits[i] = c) - 1
    ELSE -1

\* value of a digit of radix 16 in either case, -1 for any other character
HexValue(c) ==
    IF \E i \in 1..16 : HexDigits[i] = c \/ UpperChar(HexDigits[i]) = c
    THEN (CHOOSE i \in 1..16 : HexDigits[i] = c \/ UpperChar(HexDigits[i]) = c) - 1
    ELSE -1

RECURSIVE PrefixValue(_, _, _)
\* the number spelled in the radix by the longest prefix of s made of its
\* digits, after acc
PrefixValue(s, radix, acc) ==
    IF s = <<>> \/ HexValue(Head(s)) \notin 0..(radix - 1) THEN acc
    ELSE PrefixValue(Tail(s), radix, radix * acc + HexValue(Head(s)))

\* the digits of parseInt: the longest prefix of digits of the radix is read;
\* NaN when there is no digit
parseDigits(digits, radix, negative) ==
    IF digits = <<>> \/ HexValue(Head(digits)) \notin 0..(radix - 1)
    THEN [nan |-> TRUE, v |-> 0]
    ELSE [nan |-> FALSE,
          v |-> IF negative THEN 0 - PrefixValue(digits, radix, 0)
                ELSE PrefixValue(digits, radix, 0)]

\* the prefix 0x or 0X is skipped when the radix is 16 or not given (0)
parseUnsigned(u, radix, negative) ==
    IF radix \in {0, 16} /\ Len(u) >= 2 /\ u[1] = "0" /\ u[2] \in {"x", "X"}
    THEN parseDigits(Tail(Tail(u)), 16, negative)
    ELSE parseDigits(u, IF radix = 16 THEN 16 ELSE 10, negative)

parseSigned(t, radix) ==
    IF t # <<>> /\ Head(t) \in {"-", "+"}
    THEN parseUnsigned(Tail(t), radix, Head(t) = "-")
    ELSE parseUnsigned(t, radix, FALSE)

\* parseInt(string, radix) with the radix 10 or 16, or without one (0):
\* leading white space is skipped, then a sign is read, then 0x when the
\* radix is 16 or not given (which makes the radix 16), then the digits
parseInt(string, radix) == parseSigned(TrimStart(string), radix)

\* a number stored into a Uint8Array element: NaN becomes 0, others wrap
toUint8(x) == IF x.nan THEN 0 ELSE x.v % 256

\* Converter.encodeFromHexString: the array has floor(length / 2) elements;
\* the loop of an odd length ends with a write behind the last element, which
\* a typed array ignores (ignored counts these writes)
encodeFromHexString(string) ==
    LET n == Len(string) \div 2
    IN  [bytes |-> [k \in 1..n |->
                      toUint8(parseInt(SubSeq(string, 2 * k - 1, 2 * k), 16))],
         ignored |-> Len(string) % 2]

\* maximum line length of Download.downloadFile
limit == 120

\* Download.downloadFile: the content of the downloaded file, each chunk
\* followed by the line feed that %0A encodes in the data URI
RECURSIVE downloadFile(_)
downloadFile(payload) ==
    IF payload = <<>> THEN <<>>
    ELSE SubSeq(payload, 1, Min(limit, Len(payload))) \o <<LineFeed>>
         \o downloadFile(SubSeq(payload, limit + 1, Len(payload)))

\* replace(/[\r\n]/g, "")
stripLineBreaks(s) == SelectSeq(s, LAMBDA c : c \notin {LineFeed, CarriageReturn})

\* the page load handler, line 31: responseText.trim().replace(/[\r\n]/g, "")
loadResponseText(responseText) == stripLineBreaks(Trim(responseText))

\* hexadecimal characters of the init vector (line 123)
initVectorLength == 32

\* bytes of the init vector and of a block of AES-CBC
BlockLength == 16

\* decryptConfig, lines 124-125 and 130: the init vector and the ciphertext
\* as bytes
splitEncrypted(text) ==
    LET iv == encodeFromHexString(SubSeq(text, 1, Min(initVectorLength, Len(text))))
        data == encodeFromHexString(SubSeq(text, initVectorLength + 1, Len(text)))
    IN  [iv |-> iv.bytes, data |-> data.bytes,
         ignored |-> iv.ignored + data.ignored]

\* length of the AES-CBC ciphertext of n bytes with its padding
paddedLength(n) == BlockLength * ((n \div BlockLength) + 1)

\* PKCS#7: the padding crypto.subtle.encrypt appends to n bytes
padding(n) ==
    [i \in 1..(paddedLength(n) - n) |-> paddedLength(n) - n]

\* PKCS#7 as crypto.subtle.decrypt checks it on the decrypted blocks: the
\* last byte is a number v of 1..16 and each of the last v bytes is v
paddingValid(bytes) ==
    /\ bytes # <<>>
    /\ LET v == bytes[Len(bytes)]
       IN  /\ v \in 1..BlockLength
           /\ v <= Len(bytes)
           /\ \A k \in (Len(bytes) - v + 1)..Len(bytes) : bytes[k] = v

\* the bytes without their valid padding
unpad(bytes) == SubSeq(bytes, 1, Len(bytes) - bytes[Len(bytes)])

RECURSIVE Xor(_, _)
\* a ^ b on numbers
Xor(a, b) ==
    IF a = 0 THEN b
    ELSE IF b = 0 THEN a
    ELSE ((a + b) % 2) + 2 * Xor(a \div 2, b \div 2)

\* a ^ b on the numbers 0..15, at [a + 1][b + 1]
XorTable ==
    SubSeq([a \in 1..16 |->
               SubSeq([b \in 1..16 |-> Xor(a - 1, b - 1)], 1, 16)], 1, 16)

\* a ^ b on bytes
XorByte(a, b) ==
    16 * XorTable[(a \div 16) + 1][(b \div 16) + 1]
    + XorTable[(a % 16) + 1][(b % 16) + 1]

\* the 16 bytes F(1), ..., F(16)
Bytes16(F(_)) ==
    <<F(1), F(2), F(3), F(4), F(5), F(6), F(7), F(8),
      F(9), F(10), F(11), F(12), F(13), F(14), F(15), F(16)>>

XorBlock(x, y) == Bytes16(LAMBDA k : XorByte(x[k], y[k]))

\* block i of a sequence of whole blocks
Block(bytes, i) == SubSeq(bytes, BlockLength * (i - 1) + 1, BlockLength * i)

Blocks(bytes) == Len(bytes) \div BlockLength

RECURSIVE Flatten(_)
\* the sequences of a sequence, one after the other
Flatten(seqs) ==
    IF seqs = <<>> THEN <<>>
    ELSE IF Len(seqs) = 1 THEN seqs[1]
    ELSE LET half == Len(seqs) \div 2
         IN  Flatten(SubSeq(seqs, 1, half))
             \o Flatten(SubSeq(seqs, half + 1, Len(seqs)))

-----------------------------------------------------------------------------
(* AES-256 (FIPS 197), the block cipher behind crypto.subtle.encrypt and   *)
(* crypto.subtle.decrypt with {name: "AES-CBC"} and a key of length 256    *)
(* (lines 127-131, 297 and 309-313).  A block and the state of the cipher  *)
(* are 16 bytes, column after column.                                      *)

\* FIPS 197, figure 7: the substitution of the byte b, at [b + 1]
SBox ==
    <<99, 124, 119, 123, 242, 107, 111, 197, 48, 1, 103, 43, 254, 215, 171, 118,
      202, 130, 201, 125, 250, 89, 71, 240, 173, 212, 162, 175, 156, 164, 114, 192,
      183, 253, 147, 38, 54, 63, 247, 204, 52, 165, 229, 241, 113, 216, 49, 21,
      4, 199, 35, 195, 24, 150, 5, 154, 7, 18, 128, 226, 235, 39, 178, 117,
      9, 131, 44, 26, 27, 110, 90, 160, 82, 59, 214, 179, 41, 227, 47, 132,
      83, 209, 0, 237, 32, 252, 177, 91, 106, 203, 190, 57, 74, 76, 88, 207,
      208, 239, 170, 251, 67, 77, 51, 133, 69, 249, 2, 127, 80, 60, 159, 168,
      81, 163, 64, 143, 146, 157, 56, 245, 188, 182, 218, 33, 16, 255, 243, 210,
      205, 12, 19, 236, 95, 151, 68, 23, 196, 167, 126, 61, 100, 93, 25, 115,
      96, 129, 79, 220, 34, 42, 144, 136, 70, 238, 184, 20, 222, 94, 11, 219,
      224, 50, 58, 10, 73, 6, 36, 92, 194, 211, 172, 98, 145, 149, 228, 121,
      231, 200, 55, 109, 141, 213, 78, 169, 108, 86, 244, 234, 101, 122, 174, 8,
      186, 120, 37, 46, 28, 166, 180, 198, 232, 221, 116, 31, 75, 189, 139, 138,
      112, 62, 181, 102, 72, 3, 246, 14, 97, 53, 87, 185, 134, 193, 29, 158,
      225, 248, 152, 17, 105, 217, 142, 148, 155, 30, 135, 233, 206, 85, 40, 223,
      140, 161, 137, 13, 191, 230, 66, 104, 65, 153, 45, 15, 176, 84, 187, 22>>

\* FIPS 197, figure 14: the inverse of the substitution
InvSBox ==
    SubSeq([v \in 1..256 |-> (CHOOSE i \in 1..256 : SBox[i] = v - 1) - 1],
           1, 256)

\* FIPS 197, 4.2.1: the product of the byte a and x in GF(2^8)
xtime(a) == IF a < 128 THEN 2 * a ELSE XorByte((2 * a) % 256, 27)

\* the products of the byte b and 2, 3, 4, 8, 9, 11, 13, 14 in GF(2^8), at
\* [b + 1]
Times2 == SubSeq([v \in 1..256 |-> xtime(v - 1)], 1, 256)
Times3 == SubSeq([v \in 1..256 |-> XorByte(Times2[v], v - 1)], 1, 256)
Times4 == SubSeq([v \in 1..256 |-> Times2[Times2[v] + 1]], 1, 256)
Times8 == SubSeq([v \in 1..256 |-> Times2[Times4[v] + 1]], 1, 256)
Times9 == SubSeq([v \in 1..256 |-> XorByte(Times8[v], v - 1)], 1, 256)
Times11 == SubSeq([v \in 1..256 |-> XorByte(Times9[v], Times2[v])], 1, 256)
Times13 == SubSeq([v \in 1..256 |-> XorByte(Times9[v], Times4[v])], 1, 256)
Times14 ==
    SubSeq([v \in 1..256 |-> XorByte(XorByte(Times8[v], Times4[v]), Times2[v])],
           1, 256)

\* FIPS 197, 5.2: the round constants of the key expansion
Rcon == <<1, 2, 4, 8, 16, 32, 64>>

subWord(w) == <<SBox[w[1] + 1], SBox[w[2] + 1], SBox[w[3] + 1], SBox[w[4] + 1]>>

rotWord(w) == <<w[2], w[3], w[4], w[1]>>

xorWord(x, y) ==
    <<XorByte(x[1], y[1]), XorByte(x[2], y[2]), XorByte(x[3], y[3]),
      XorByte(x[4], y[4])>>

\* words of an AES-256 key, words of its key schedule, rounds of the cipher
KeyWords == 8
ScheduleWords == 60
Rounds == 14

\* FIPS 197, figure 11: the word that follows the words w of a key schedule
nextWord(w) ==
    xorWord(w[Len(w) - KeyWords + 1],
            IF Len(w) % KeyWords = 0
            THEN xorWord(subWord(rotWord(w[Len(w)])),
                         <<Rcon[Len(w) \div KeyWords], 0, 0, 0>>)
            ELSE IF Len(w) % KeyWords = 4 THEN subWord(w[Len(w)])
            ELSE w[Len(w)])

RECURSIVE keyExpansion(_)
keyExpansion(w) ==
    IF Len(w) >= ScheduleWords THEN w ELSE keyExpansion(Append(w, nextWord(w)))

\* the key schedule of the 32 bytes of a key
keySchedule(bytes) ==
    keyExpansion(SubSeq([i \in 1..KeyWords |-> SubSeq(bytes, 4 * i - 3, 4 * i)],
                        1, KeyWords))

\* the round key of round r (0..14)
roundKey(w, r) == w[4 * r + 1] \o w[4 * r + 2] \o w[4 * r + 3] \o w[4 * r + 4]

subBytes(s) == Bytes16(LAMBDA k : SBox[s[k] + 1])

invSubBytes(s) == Bytes16(LAMBDA k : InvSBox[s[k] + 1])

\* byte k of a state is row (k - 1) % 4 of column (k - 1) \div 4; row r is
\* rotated by r columns
shiftRows(s) ==
    Bytes16(LAMBDA k :
        s[4 * ((((k - 1) \div 4) + ((k - 1) % 4)) % 4) + ((k - 1) % 4) + 1])

invShiftRows(s) ==
    Bytes16(LAMBDA k :
        s[4 * ((((k - 1) \div 4) + 4 - ((k - 1) % 4)) % 4) + ((k - 1) % 4) + 1])

\* the byte of row r % 4 in the column of byte k
inColumn(s, k, r) == s[4 * ((k - 1) \div 4) + (r % 4) + 1]

mixColumns(s) ==
    Bytes16(LAMBDA k :
        XorByte(XorByte(Times2[inColumn(s, k, k - 1) + 1],
                        Times3[inColumn(s, k, k) + 1]),
                XorByte(inColumn(s, k, k + 1), inColumn(s, k, k + 2))))

invMixColumns(s) ==
    Bytes16(LAMBDA k :
        XorByte(XorByte(Times14[inColumn(s, k, k - 1) + 1],
                        Times11[inColumn(s, k, k) + 1]),
                XorByte(Times13[inColumn(s, k, k + 1) + 1],
                        Times9[inColumn(s, k, k + 2) + 1])))

RECURSIVE cipherRounds(_, _, _)
\* FIPS 197, figure 5: the rounds r..14 of the cipher on the state s (the
\* test of its length makes the state a value before the round starts)
cipherRounds(s, w, r) ==
    IF Len(s) # BlockLength THEN s
    ELSE IF r = Rounds
    THEN XorBlock(shiftRows(subBytes(s)), roundKey(w, r))
    ELSE cipherRounds(XorBlock(mixColumns(shiftRows(subBytes(s))),
                               roundKey(w, r)),
                      w, r + 1)

\* the cipher on one block, under the key schedule w
cipherBlock(w, block) == cipherRounds(XorBlock(block, roundKey(w, 0)), w, 1)

RECURSIVE invCipherRounds(_, _, _)
\* FIPS 197, figure 12: the rounds r..0 of the inverse cipher on the state s
invCipherRounds(s, w, r) ==
    IF Len(s) # BlockLength THEN s
    ELSE IF r = 0
    THEN XorBlock(invSubBytes(invShiftRows(s)), roundKey(w, 0))
    ELSE invCipherRounds(
            invMixColumns(XorBlock(invSubBytes(invShiftRows(s)), roundKey(w, r))),
            w, r - 1)

\* the inverse cipher on one block
invCipherBlock(w, block) ==
    invCipherRounds(XorBlock(block, roundKey(w, Rounds)), w, Rounds - 1)

\* PBKDF2-HMAC-SHA-512 is not computed: the table holds the 32 bytes it
\* derives from the main key of a secret text with a salt and an iteration
\* count, for the secrets, the names and the counts a session of the model
\* can hand to deriveKey
DerivedKeys == <<
    [secret |-> <<>>, salt |-> <<"a", ".", "b">>, count |-> 1000,
     bits |-> <<13, 67, 236, 14, 253, 212, 30, 101, 112, 157, 59, 134, 234, 190, 87, 139, 128, 245, 44, 29, 189, 157, 248, 72, 198, 14, 15, 108, 235, 11, 152, 212>>],
    [secret |-> <<>>, salt |-> <<"a", ".", "b">>, count |-> 1001,
     bits |-> <<154, 255, 83, 74, 232, 2, 226, 31, 109, 91, 185, 202, 177, 79, 47, 134, 71, 180, 98, 221, 157, 40, 236, 115, 168, 166, 176, 123, 186, 91, 127, 255>>],
    [secret |-> <<>>, salt |-> <<"a", ".", "b">>, count |-> 1002,
     bits |-> <<78, 168, 119, 227, 4, 115, 39, 78, 47, 247, 9, 190, 113, 245, 27, 117, 119, 102, 112, 112, 219, 198, 250, 35, 23, 25, 153, 96, 23, 200, 76, 176>>],
    [secret |-> <<>>, salt |-> <<"a", ".", "b">>, count |-> 1003,
     bits |-> <<171, 143, 245, 111, 209, 176, 84, 7, 180, 156, 2, 71, 41, 199, 244, 27, 93, 70, 219, 81, 29, 45, 157, 248, 156, 108, 253, 21, 181, 37, 129, 217>>],
    [secret |-> <<>>, salt |-> <<"a", ".", "b">>, count |-> 1004,
     bits |-> <<75, 14, 105, 200, 95, 202, 8, 157, 92, 204, 76, 135, 31, 245, 143, 237, 60, 95, 27, 251, 45, 42, 255, 40, 211, 165, 202, 162, 102, 161, 111, 225>>],
    [secret |-> <<>>, salt |-> <<"a", ".", "b">>, count |-> 1005,
     bits |-> <<64, 6, 68, 60, 84, 143, 151, 203, 135, 69, 157, 141, 240, 230, 64, 88, 210, 122, 255, 170, 94, 185, 239, 83, 98, 100, 51, 10, 218, 52, 204, 19>>],
    [secret |-> <<>>, salt |-> <<"a", ".", "b">>, count |-> 1006,
     bits |-> <<200, 90, 158, 127, 195, 189, 78, 168, 84, 66, 124, 255, 206, 228, 180, 40, 102, 250, 55, 1, 243, 64, 153, 223, 242, 142, 111, 201, 16, 62, 34, 40>>],
    [secret |-> <<>>, salt |-> <<"a", ".", "b">>, count |-> 1007,
     bits |-> <<83, 183, 60, 8, 30, 0, 195, 162, 186, 67, 21, 135, 25, 93, 146, 112, 175, 234, 120, 228, 234, 156, 254, 6, 175, 163, 204, 42, 102, 166, 206, 186>>],
    [secret |-> <<>>, salt |-> <<"a", ".", "b">>, count |-> 1008,
     bits |-> <<161, 64, 169, 189, 74, 5, 69, 162, 113, 36, 116, 38, 198, 246, 18, 205, 36, 248, 173, 28, 174, 167, 145, 69, 169, 214, 94, 115, 226, 107, 234, 234>>],
    [secret |-> <<>>, salt |-> <<"a", ".", "b">>, count |-> 100003,
     bits |-> <<100, 172, 217, 225, 183, 8, 15, 129, 113, 44, 31, 158, 143, 89, 148, 55, 94, 124, 4, 60, 136, 53, 221, 161, 127, 89, 114, 14, 229, 120, 117, 91>>],
    [secret |-> <<>>, salt |-> <<"b", ".", "a">>, count |-> 1000,
     bits |-> <<154, 61, 37, 245, 63, 81, 1, 38, 69, 179, 225, 225, 136, 207, 66, 211, 197, 255, 91, 166, 109, 150, 158, 12, 77, 179, 16, 92, 206, 144, 172, 52>>],
    [secret |-> <<>>, salt |-> <<"b", ".", "a">>, count |-> 1001,
     bits |-> <<116, 252, 4, 46, 116, 34, 94, 147, 219, 207, 182, 252, 17, 63, 89, 72, 112, 63, 167, 168, 72, 86, 180, 86, 9, 33, 73, 235, 143, 103, 59, 199>>],
    [secret |-> <<>>, salt |-> <<"b", ".", "a">>, count |-> 1002,
     bits |-> <<157, 132, 254, 161, 89, 211, 144, 33, 6, 113, 230, 221, 209, 129, 88, 7, 142, 157, 148, 164, 197, 171, 190, 80, 109, 181, 92, 253, 173, 180, 51, 174>>],
    [secret |-> <<>>, salt |-> <<"b", ".", "a">>, count |-> 1003,
     bits |-> <<56, 142, 146, 233, 237, 97, 205, 132, 54, 197, 47, 68, 66, 152, 66, 110, 45, 15, 53, 77, 51, 26, 53, 68, 24, 158, 198, 116, 56, 82, 169, 124>>],
    [secret |-> <<>>, salt |-> <<"b", ".", "a">>, count |-> 1004,
     bits |-> <<100, 227, 205, 39, 142, 147, 166, 66, 189, 192, 162, 213, 144, 50, 116, 88, 88, 62, 121, 199, 27, 44, 44, 222, 14, 93, 153, 84, 74, 99, 21, 203>>],
    [secret |-> <<>>, salt |-> <<"b", ".", "a">>, count |-> 1005,
     bits |-> <<221, 40, 164, 209, 227, 133, 64, 46, 66, 161, 36, 30, 146, 240, 176, 205, 119, 207, 10, 193, 55, 36, 12, 197, 141, 85, 143, 81, 187, 53, 31, 150>>],
    [secret |-> <<>>, salt |-> <<"b", ".", "a">>, count |-> 1006,
     bits |-> <<67, 33, 193, 143, 251, 119, 34, 18, 206, 203, 108, 237, 101, 176, 154, 189, 141, 45, 89, 130, 82, 5, 190, 224, 20, 247, 192, 227, 60, 213, 14, 37>>],
    [secret |-> <<>>, salt |-> <<"b", ".", "a">>, count |-> 1007,
     bits |-> <<201, 107, 141, 36, 141, 6, 245, 251, 246, 191, 28, 41, 88, 247, 100, 54, 128, 8, 226, 196, 224, 163, 201, 187, 129, 98, 42, 30, 56, 243, 132, 239>>],
    [secret |-> <<>>, salt |-> <<"b", ".", "a">>, count |-> 1008,
     bits |-> <<83, 150, 56, 14, 13, 247, 7, 133, 17, 104, 71, 126, 35, 66, 48, 121, 191, 26, 37, 97, 136, 6, 223, 25, 20, 97, 75, 100, 224, 85, 87, 135>>],
    [secret |-> <<>>, salt |-> <<"b", ".", "a">>, count |-> 100003,
     bits |-> <<64, 239, 192, 244, 173, 218, 126, 102, 137, 228, 55, 245, 140, 65, 179, 191, 212, 137, 114, 18, 90, 73, 63, 36, 126, 85, 204, 81, 88, 83, 95, 139>>],
    [secret |-> <<>>, salt |-> <<"A", ".", "b">>, count |-> 1000,
     bits |-> <<116, 231, 21, 113, 195, 57, 180, 198, 49, 188, 179, 244, 215, 34, 231, 162, 28, 249, 141, 0, 215, 235, 66, 67, 197, 118, 157, 25, 87, 120, 32, 165>>],
    [secret |-> <<>>, salt |-> <<"A", ".", "b">>, count |-> 1001,
     bits |-> <<76, 152, 102, 170, 116, 107, 79, 231, 225, 1, 30, 41, 243, 88, 184, 175, 205, 132, 34, 0, 226, 192, 30, 231, 231, 24, 220, 172, 220, 237, 53, 117>>],
    [secret |-> <<>>, salt |-> <<"A", ".", "b">>, count |-> 1002,
     bits |-> <<129, 223, 44, 35, 97, 108, 196, 144, 109, 134, 95, 134, 199, 55, 176, 122, 143, 137, 145, 10, 191, 193, 3, 247, 212, 222, 22, 73, 81, 252, 10, 14>>],
    [secret |-> <<>>, salt |-> <<"A", ".", "b">>, count |-> 1003,
     bits |-> <<238, 138, 196, 186, 108, 128, 103, 143, 29, 178, 202, 236, 216, 157, 237, 134, 236, 217, 129, 63, 144, 70, 126, 71, 18, 72, 204, 167, 203, 20, 116, 157>>],
    [secret |-> <<>>, salt |-> <<"A", ".", "b">>, count |-> 1004,
     bits |-> <<199, 76, 58, 228, 48, 203, 70, 10, 184, 121, 130, 89, 158, 231, 165, 10, 101, 37, 143, 156, 110, 81, 180, 101, 56, 21, 162, 63, 149, 252, 238, 200>>],
    [secret |-> <<>>, salt |-> <<"A", ".", "b">>, count |-> 1005,
     bits |-> <<85, 7, 242, 175, 34, 133, 237, 186, 240, 42, 17, 21, 41, 153, 44, 216, 143, 61, 213, 94, 0, 113, 186, 105, 42, 66, 47, 165, 201, 195, 165, 118>>],
    [secret |-> <<>>, salt |-> <<"A", ".", "b">>, count |-> 1006,
     bits |-> <<49, 110, 14, 7, 57, 52, 239, 24, 248, 129, 104, 213, 105, 205, 168, 52, 67, 198, 138, 151, 172, 121, 33, 61, 101, 165, 52, 219, 130, 59, 227, 152>>],
    [secret |-> <<>>, salt |-> <<"A", ".", "b">>, count |-> 1007,
     bits |-> <<132, 156, 61, 2, 47, 179, 12, 61, 34, 153, 93, 245, 227, 47, 159, 111, 48, 154, 253, 179, 33, 176, 45, 119, 194, 212, 29, 28, 247, 4, 29, 241>>],
    [secret |-> <<>>, salt |-> <<"A", ".", "b">>, count |-> 1008,
     bits |-> <<214, 48, 57, 98, 252, 120, 129, 244, 59, 118, 176, 237, 239, 238, 172, 15, 175, 199, 37, 180, 204, 74, 132, 187, 139, 1, 174, 91, 205, 26, 145, 104>>],
    [secret |-> <<>>, salt |-> <<"A", ".", "b">>, count |-> 100003,
     bits |-> <<229, 231, 24, 182, 37, 221, 236, 166, 188, 45, 215, 136, 247, 123, 72, 75, 145, 64, 200, 198, 180, 86, 0, 136, 145, 151, 99, 74, 188, 186, 186, 167>>],
    [secret |-> <<>>, salt |-> <<"c", "o", "n", "f", "i", "g">>, count |-> 1000,
     bits |-> <<246, 157, 186, 213, 5, 247, 17, 160, 78, 215, 32, 209, 38, 39, 22, 75, 203, 29, 253, 129, 19, 121, 56, 210, 6, 92, 80, 44, 13, 138, 225, 83>>],
    [secret |-> <<>>, salt |-> <<"c", "o", "n", "f", "i", "g">>, count |-> 1001,
     bits |-> <<175, 134, 135, 111, 148, 227, 124, 118, 128, 97, 115, 65, 119, 253, 51, 243, 215, 172, 243, 229, 142, 116, 117, 162, 38, 15, 116, 219, 17, 165, 243, 85>>],
    [secret |-> <<>>, salt |-> <<"c", "o", "n", "f", "i", "g">>, count |-> 1002,
     bits |-> <<100, 65, 76, 113, 22, 107, 145, 25, 78, 0, 136, 219, 119, 183, 210, 180, 28, 12, 210, 6, 112, 164, 121, 78, 152, 246, 51, 4, 138, 244, 52, 97>>],
    [secret |-> <<>>, salt |-> <<"c", "o", "n", "f", "i", "g">>, count |-> 1003,
     bits |-> <<160, 34, 172, 231, 83, 107, 179, 88, 207, 75, 144, 32, 134, 9, 173, 20, 24, 73, 121, 251, 48, 255, 146, 97, 98, 179, 1, 223, 77, 180, 40, 49>>],
    [secret |-> <<>>, salt |-> <<"c", "o", "n", "f", "i", "g">>, count |-> 1004,
     bits |-> <<139, 118, 187, 87, 132, 104, 51, 9, 73, 105, 52, 28, 142, 195, 15, 58, 218, 88, 169, 3, 80, 171, 172, 40, 49, 105, 75, 187, 80, 171, 98, 216>>],
    [secret |-> <<>>, salt |-> <<"c", "o", "n", "f", "i", "g">>, count |-> 1005,
     bits |-> <<142, 3, 245, 254, 200, 136, 143, 91, 121, 76, 175, 107, 21, 206, 220, 62, 16, 226, 153, 51, 9, 109, 100, 113, 224, 34, 85, 75, 236, 90, 241, 119>>],
    [secret |-> <<>>, salt |-> <<"c", "o", "n", "f", "i", "g">>, count |-> 1006,
     bits |-> <<43, 131, 99, 118, 167, 10, 217, 233, 148, 232, 200, 113, 248, 84, 187, 163, 250, 25, 217, 255, 129, 181, 194, 112, 126, 36, 1, 191, 143, 45, 104, 112>>],
    [secret |-> <<>>, salt |-> <<"c", "o", "n", "f", "i", "g">>, count |-> 1007,
     bits |-> <<10, 129, 49, 220, 234, 149, 113, 111, 207, 217, 209, 242, 171, 102, 217, 85, 26, 131, 16, 43, 226, 159, 172, 247, 153, 195, 28, 218, 127, 125, 225, 125>>],
    [secret |-> <<>>, salt |-> <<"c", "o", "n", "f", "i", "g">>, count |-> 1008,
     bits |-> <<180, 134, 5, 78, 254, 204, 207, 201, 95, 116, 222, 111, 201, 235, 134, 31, 61, 133, 64, 241, 198, 36, 180, 149, 106, 184, 141, 89, 174, 132, 189, 143>>],
    [secret |-> <<>>, salt |-> <<"c", "o", "n", "f", "i", "g">>, count |-> 100003,
     bits |-> <<140, 255, 138, 66, 82, 26, 212, 125, 60, 29, 102, 67, 185, 64, 57, 24, 165, 17, 252, 2, 177, 4, 188, 15, 8, 37, 92, 200, 12, 7, 201, 175>>],
    [secret |-> <<"p">>, salt |-> <<"a", ".", "b">>, count |-> 1000,
     bits |-> <<85, 21, 133, 141, 115, 103, 54, 251, 147, 13, 112, 53, 1, 55, 143, 66, 242, 249, 223, 76, 166, 29, 80, 234, 184, 16, 113, 96, 181, 178, 184, 252>>],
    [secret |-> <<"p">>, salt |-> <<"a", ".", "b">>, count |-> 1001,
     bits |-> <<109, 83, 163, 7, 48, 186, 180, 243, 234, 137, 178, 188, 185, 68, 250, 145, 37, 211, 185, 198, 71, 142, 0, 93, 62, 12, 172, 122, 45, 127, 196, 100>>],
    [secret |-> <<"p">>, salt |-> <<"a", ".", "b">>, count |-> 1002,
     bits |-> <<166, 122, 145, 69, 163, 221, 247, 77, 51, 35, 149, 24, 203, 111, 208, 215, 109, 186, 191, 241, 239, 137, 43, 250, 52, 153, 154, 224, 222, 184, 35, 141>>],
    [secret |-> <<"p">>, salt |-> <<"a", ".", "b">>, count |-> 1003,
     bits |-> <<146, 95, 249, 195, 162, 38, 224, 251, 227, 141, 32, 148, 212, 135, 52, 46, 26, 72, 230, 134, 168, 242, 140, 8, 46, 106, 54, 31, 70, 121, 194, 239>>],
    [secret |-> <<"p">>, salt |-> <<"a", ".", "b">>, count |-> 1004,
     bits |-> <<185, 62, 182, 138, 161, 125, 143, 154, 169, 82, 171, 70, 143, 83, 146, 176, 202, 120, 40, 238, 139, 244, 143, 240, 133, 122, 144, 183, 142, 64, 118, 54>>],
    [secret |-> <<"p">>, salt |-> <<"a", ".", "b">>, count |-> 1005,
     bits |-> <<238, 101, 167, 212, 214, 31, 230, 233, 229, 149, 214, 180, 57, 195, 91, 158, 112, 19, 159, 250, 180, 136, 217, 48, 247, 246, 241, 129, 73, 72, 117, 168>>],
    [secret |-> <<"p">>, salt |-> <<"a", ".", "b">>, count |-> 1006,
     bits |-> <<129, 164, 227, 27, 182, 230, 136, 18, 183, 115, 244, 78, 138, 199, 160, 92, 136, 91, 100, 232, 59, 180, 208, 237, 27, 76, 90, 33, 57, 129, 139, 115>>],
    [secret |-> <<"p">>, salt |-> <<"a", ".", "b">>, count |-> 1007,
     bits |-> <<138, 54, 76, 151, 94, 83, 198, 217, 201, 89, 98, 249, 248, 182, 63, 246, 140, 229, 118, 228, 56, 7, 63, 149, 96, 97, 249, 208, 42, 52, 51, 186>>],
    [secret |-> <<"p">>, salt |-> <<"a", ".", "b">>, count |-> 1008,
     bits |-> <<148, 62, 145, 79, 227, 207, 76, 70, 170, 48, 247, 132, 171, 187, 159, 45, 95, 140, 126, 71, 231, 34, 4, 163, 3, 86, 90, 125, 14, 79, 114, 243>>],
    [secret |-> <<"p">>, salt |-> <<"a", ".", "b">>, count |-> 100003,
     bits |-> <<82, 142, 235, 194, 231, 106, 31, 205, 122, 251, 192, 0, 229, 190, 138, 115, 185, 81, 24, 96, 64, 214, 171, 0, 58, 76, 99, 250, 148, 129, 133, 121>>],
    [secret |-> <<"p">>, salt |-> <<"b", ".", "a">>, count |-> 1000,
     bits |-> <<102, 180, 102, 11, 54, 95, 188, 121, 20, 163, 221, 221, 74, 240, 144, 184, 177, 154, 179, 132, 49, 94, 55, 128, 254, 174, 218, 35, 80, 112, 107, 188>>],
    [secret |-> <<"p">>, salt |-> <<"b", ".", "a">>, count |-> 1001,
     bits |-> <<46, 238, 150, 56, 229, 44, 105, 203, 167, 100, 224, 184, 16, 37, 235, 113, 116, 236, 42, 134, 216, 46, 226, 111, 129, 246, 62, 137, 160, 165, 133, 18>>],
    [secret |-> <<"p">>, salt |-> <<"b", ".", "a">>, count |-> 1002,
     bits |-> <<219, 69, 12, 65, 69, 108, 221, 44, 157, 27, 109, 209, 154, 162, 21, 43, 4, 255, 67, 216, 235, 92, 62, 40, 245, 228, 14, 118, 229, 87, 148, 171>>],
    [secret |-> <<"p">>, salt |-> <<"b", ".", "a">>, count |-> 1003,
     bits |-> <<126, 54, 159, 141, 71, 182, 209, 74, 153, 244, 61, 104, 142, 140, 100, 95, 245, 114, 234, 140, 41, 236, 45, 194, 176, 154, 108, 115, 229, 211, 136, 8>>],
    [secret |-> <<"p">>, salt |-> <<"b", ".", "a">>, count |-> 1004,
     bits |-> <<44, 245, 52, 15, 31, 94, 118, 36, 194, 8, 168, 2, 77, 181, 68, 41, 200, 196, 33, 30, 34, 72, 176, 158, 125, 219, 231, 225, 110, 162, 215, 2>>],
    [secret |-> <<"p">>, salt |-> <<"b", ".", "a">>, count |-> 1005,
     bits |-> <<202, 82, 237, 246, 41, 194, 192, 165, 201, 255, 50, 91, 96, 0, 183, 65, 151, 173, 100, 67, 166, 233, 181, 6, 167, 169, 174, 210, 91, 210, 102, 84>>],
    [secret |-> <<"p">>, salt |-> <<"b", ".", "a">>, count |-> 1006,
     bits |-> <<156, 40, 200, 249, 105, 87, 46, 161, 14, 145, 71, 181, 3, 46, 24, 245, 91, 105, 47, 211, 100, 230, 218, 28, 1, 101, 247, 14, 143, 173, 7, 92>>],
    [secret |-> <<"p">>, salt |-> <<"b", ".", "a">>, count |-> 1007,
     bits |-> <<189, 11, 169, 159, 182, 237, 225, 231, 183, 32, 201, 2, 143, 138, 203, 197, 228, 181, 118, 193, 165, 231, 86, 110, 129, 129, 128, 110, 231, 72, 170, 70>>],
    [secret |-> <<"p">>, salt |-> <<"b", ".", "a">>, count |-> 1008,
     bits |-> <<168, 175, 76, 139, 202, 156, 73, 128, 110, 41, 28, 34, 153, 88, 177, 208, 117, 168, 90, 115, 85, 146, 247, 24, 49, 254, 198, 173, 24, 247, 145, 174>>],
    [secret |-> <<"p">>, salt |-> <<"b", ".", "a">>, count |-> 100003,
     bits |-> <<18, 204, 115, 140, 191, 13, 12, 204, 221, 38, 152, 129, 82, 197, 231, 109, 179, 13, 218, 4, 210, 160, 64, 116, 246, 208, 180, 225, 195, 120, 119, 57>>],
    [secret |-> <<"p">>, salt |-> <<"A", ".", "b">>, count |-> 1000,
     bits |-> <<218, 53, 62, 115, 124, 100, 46, 145, 155, 91, 105, 113, 152, 177, 162, 144, 96, 197, 224, 246, 49, 58, 106, 213, 150, 205, 199, 190, 60, 217, 173, 247>>],
    [secret |-> <<"p">>, salt |-> <<"A", ".", "b">>, count |-> 1001,
     bits |-> <<98, 74, 43, 83, 187, 230, 122, 144, 219, 247, 83, 131, 64, 179, 210, 14, 169, 195, 6, 156, 167, 75, 114, 107, 221, 221, 175, 217, 242, 160, 79, 158>>],
    [secret |-> <<"p">>, salt |-> <<"A", ".", "b">>, count |-> 1002,
     bits |-> <<35, 165, 143, 157, 208, 221, 26, 238, 102, 234, 218, 139, 98, 166, 215, 233, 88, 147, 46, 85, 10, 109, 44, 215, 45, 162, 165, 9, 75, 117, 201, 170>>],
    [secret |-> <<"p">>, salt |-> <<"A", ".", "b">>, count |-> 1003,
     bits |-> <<55, 109, 193, 171, 15, 32, 134, 38, 203, 251, 91, 182, 164, 178, 88, 12, 117, 255, 218, 192, 210, 152, 115, 213, 108, 243, 76, 241, 254, 214, 24, 88>>],
    [secret |-> <<"p">>, salt |-> <<"A", ".", "b">>, count |-> 1004,
     bits |-> <<14, 152, 150, 146, 158, 246, 91, 84, 3, 190, 240, 152, 178, 236, 144, 40, 80, 27, 173, 84, 229, 69, 62, 112, 114, 33, 14, 167, 169, 22, 11, 36>>],
    [secret |-> <<"p">>, salt |-> <<"A", ".", "b">>, count |-> 1005,
     bits |-> <<202, 40, 121, 19, 131, 153, 79, 7, 195, 121, 8, 60, 29, 246, 95, 40, 168, 133, 103, 44, 151, 214, 105, 109, 170, 24, 249, 88, 95, 162, 251, 165>>],
    [secret |-> <<"p">>, salt |-> <<"A", ".", "b">>, count |-> 1006,
     bits |-> <<187, 247, 42, 208, 109, 105, 152, 187, 149, 11, 23, 52, 186, 34, 204, 245, 74, 225, 216, 183, 108, 227, 250, 124, 175, 42, 107, 6, 106, 151, 187, 199>>],
    [secret |-> <<"p">>, salt |-> <<"A", ".", "b">>, count |-> 1007,
     bits |-> <<199, 44, 255, 17, 73, 251, 214, 143, 217, 90, 166, 193, 120, 100, 45, 212, 49, 75, 163, 150, 209, 232, 98, 75, 159, 220, 147, 82, 234, 8, 79, 144>>],
    [secret |-> <<"p">>, salt |-> <<"A", ".", "b">>, count |-> 1008,
     bits |-> <<200, 22, 166, 231, 209, 232, 210, 216, 130, 124, 121, 94, 153, 224, 179, 20, 157, 34, 193, 18, 36, 3, 199, 212, 156, 176, 78, 195, 147, 167, 109, 225>>],
    [secret |-> <<"p">>, salt |-> <<"A", ".", "b">>, count |-> 100003,
     bits |-> <<107, 56, 99, 254, 186, 232, 115, 175, 248, 162, 48, 164, 114, 193, 76, 125, 114, 6, 176, 157, 234, 171, 0, 144, 228, 102, 48, 206, 158, 35, 252, 70>>],
    [secret |-> <<"p">>, salt |-> <<"c", "o", "n", "f", "i", "g">>, count |-> 1000,
     bits |-> <<37, 225, 220, 2, 34, 150, 137, 185, 212, 71, 238, 185, 216, 235, 67, 254, 131, 215, 143, 83, 5, 52, 217, 108, 236, 174, 87, 229, 83, 99, 190, 210>>],
    [secret |-> <<"p">>, salt |-> <<"c", "o", "n", "f", "i", "g">>, count |-> 1001,
     bits |-> <<243, 130, 10, 164, 7, 84, 249, 191, 12, 178, 59, 19, 210, 212, 152, 170, 235, 162, 165, 144, 185, 118, 51, 60, 64, 25, 92, 94, 94, 20, 64, 251>>],
    [secret |-> <<"p">>, salt |-> <<"c", "o", "n", "f", "i", "g">>, count |-> 1002,
     bits |-> <<147, 231, 223, 179, 188, 162, 125, 226, 49, 254, 217, 205, 17, 20, 125, 142, 86, 4, 18, 168, 225, 43, 95, 192, 207, 112, 220, 65, 124, 4, 182, 124>>],
    [secret |-> <<"p">>, salt |-> <<"c", "o", "n", "f", "i", "g">>, count |-> 1003,
     bits |-> <<111, 181, 245, 203, 132, 210, 173, 149, 66, 195, 89, 114, 255, 115, 180, 172, 115, 127, 11, 183, 229, 145, 46, 135, 46, 139, 155, 92, 177, 82, 142, 224>>],
    [secret |-> <<"p">>, salt |-> <<"c", "o", "n", "f", "i", "g">>, count |-> 1004,
     bits |-> <<58, 56, 170, 111, 205, 247, 76, 85, 216, 214, 250, 232, 198, 96, 129, 163, 92, 102, 179, 186, 97, 70, 179, 136, 62, 0, 114, 17, 95, 23, 200, 25>>],
    [secret |-> <<"p">>, salt |-> <<"c", "o", "n", "f", "i", "g">>, count |-> 1005,
     bits |-> <<178, 249, 209, 161, 41, 230, 112, 223, 230, 225, 235, 128, 2, 156, 159, 252, 19, 31, 8, 166, 146, 49, 82, 195, 141, 138, 85, 140, 154, 124, 110, 46>>],
    [secret |-> <<"p">>, salt |-> <<"c", "o", "n", "f", "i", "g">>, count |-> 1006,
     bits |-> <<157, 215, 162, 236, 191, 153, 34, 168, 194, 216, 12, 128, 3, 176, 30, 95, 150, 74, 70, 98, 118, 112, 4, 172, 188, 254, 198, 99, 76, 162, 160, 84>>],
    [secret |-> <<"p">>, salt |-> <<"c", "o", "n", "f", "i", "g">>, count |-> 1007,
     bits |-> <<122, 19, 82, 144, 92, 31, 35, 177, 182, 230, 34, 73, 60, 248, 177, 14, 4, 101, 106, 255, 11, 224, 29, 69, 103, 77, 41, 48, 67, 45, 37, 88>>],
    [secret |-> <<"p">>, salt |-> <<"c", "o", "n", "f", "i", "g">>, count |-> 1008,
     bits |-> <<98, 36, 32, 212, 247, 116, 150, 180, 188, 145, 146, 19, 175, 179, 100, 41, 26, 188, 213, 80, 243, 79, 241, 238, 149, 73, 116, 150, 222, 178, 173, 249>>],
    [secret |-> <<"p">>, salt |-> <<"c", "o", "n", "f", "i", "g">>, count |-> 100003,
     bits |-> <<175, 93, 17, 85, 41, 67, 65, 180, 216, 128, 158, 190, 158, 209, 106, 107, 131, 253, 194, 47, 9, 238, 105, 143, 108, 64, 213, 227, 167, 221, 234, 241>>],
    [secret |-> <<"p", "p">>, salt |-> <<"a", ".", "b">>, count |-> 1000,
     bits |-> <<83, 101, 233, 24, 115, 166, 143, 9, 23, 39, 110, 50, 45, 170, 27, 48, 223, 181, 10, 193, 225, 243, 95, 45, 252, 251, 56, 47, 164, 194, 126, 213>>],
    [secret |-> <<"p", "p">>, salt |-> <<"a", ".", "b">>, count |-> 1001,
     bits |-> <<214, 249, 247, 106, 119, 160, 45, 147, 246, 251, 224, 253, 123, 7, 31, 213, 223, 185, 44, 244, 227, 29, 91, 21, 199, 220, 69, 214, 75, 73, 23, 178>>],
    [secret |-> <<"p", "p">>, salt |-> <<"a", ".", "b">>, count |-> 1002,
     bits |-> <<125, 52, 143, 175, 115, 124, 131, 153, 47, 82, 93, 98, 240, 63, 216, 244, 156, 218, 51, 169, 44, 61, 62, 238, 27, 45, 101, 115, 165, 160, 66, 230>>],
    [secret |-> <<"p", "p">>, salt |-> <<"a", ".", "b">>, count |-> 1003,
     bits |-> <<221, 124, 246, 243, 237, 98, 225, 33, 122, 173, 161, 85, 224, 60, 35, 55, 53, 211, 184, 136, 59, 87, 122, 192, 204, 123, 163, 48, 155, 252, 43, 222>>],
    [secret |-> <<"p", "p">>, salt |-> <<"a", ".", "b">>, count |-> 1004,
     bits |-> <<154, 40, 170, 71, 86, 184, 232, 175, 219, 172, 247, 39, 180, 185, 74, 50, 255, 19, 154, 198, 181, 104, 20, 32, 246, 77, 246, 78, 193, 58, 57, 122>>],
    [secret |-> <<"p", "p">>, salt |-> <<"a", ".", "b">>, count |-> 1005,
     bits |-> <<49, 194, 82, 82, 177, 205, 102, 61, 207, 228, 68, 88, 130, 66, 100, 89, 163, 201, 92, 121, 225, 65, 34, 225, 123, 56, 53, 58, 249, 209, 227, 133>>],
    [secret |-> <<"p", "p">>, salt |-> <<"a", ".", "b">>, count |-> 1006,
     bits |-> <<90, 141, 93, 207, 67, 91, 218, 183, 112, 171, 121, 40, 246, 124, 190, 197, 109, 83, 8, 177, 185, 189, 172, 2, 181, 187, 233, 207, 132, 39, 176, 20>>],
    [secret |-> <<"p", "p">>, salt |-> <<"a", ".", "b">>, count |-> 1007,
     bits |-> <<250, 48, 219, 209, 87, 129, 200, 127, 97, 60, 18, 139, 145, 22, 160, 179, 205, 229, 102, 239, 114, 23, 106, 92, 170, 169, 99, 201, 255, 75, 221, 206>>],
    [secret |-> <<"p", "p">>, salt |-> <<"a", ".", "b">>, count |-> 1008,
     bits |-> <<4, 127, 109, 118, 197, 119, 158, 150, 49, 165, 79, 9, 23, 94, 194, 246, 10, 123, 9, 17, 48, 165, 23, 181, 242, 92, 176, 81, 140, 117, 49, 18>>],
    [secret |-> <<"p", "p">>, salt |-> <<"a", ".", "b">>, count |-> 100003,
     bits |-> <<99, 191, 192, 224, 0, 23, 54, 239, 143, 189, 83, 225, 232, 139, 35, 78, 162, 7, 9, 65, 4, 79, 131, 86, 55, 249, 14, 124, 49, 41, 237, 161>>],
    [secret |-> <<"p", "p">>, salt |-> <<"b", ".", "a">>, count |-> 1000,
     bits |-> <<177, 99, 166, 146, 29, 144, 60, 113, 234, 76, 169, 83, 207, 56, 250, 63, 6, 86, 250, 20, 8, 49, 126, 37, 184, 31, 168, 216, 105, 48, 146, 49>>],
    [secret |-> <<"p", "p">>, salt |-> <<"b", ".", "a">>, count |-> 1001,
     bits |-> <<33, 110, 59, 44, 212, 169, 195, 155, 157, 44, 213, 150, 154, 159, 111, 154, 201, 139, 218, 219, 100, 114, 217, 110, 11, 2, 154, 141, 96, 208, 22, 123>>],
    [secret |-> <<"p", "p">>, salt |-> <<"b", ".", "a">>, count |-> 1002,
     bits |-> <<12, 109, 67, 29, 233, 110, 53, 31, 94, 26, 73, 228, 193, 212, 212, 241, 232, 203, 62, 70, 97, 4, 169, 167, 55, 164, 144, 251, 3, 91, 241, 9>>],
    [secret |-> <<"p", "p">>, salt |-> <<"b", ".", "a">>, count |-> 1003,
     bits |-> <<54, 200, 241, 58, 221, 218, 92, 195, 17, 2, 127, 146, 159, 242, 13, 246, 178, 209, 13, 43, 33, 150, 49, 211, 82, 42, 83, 237, 157, 37, 92, 53>>],
    [secret |-> <<"p", "p">>, salt |-> <<"b", ".", "a">>, count |-> 1004,
     bits |-> <<75, 202, 216, 241, 51, 198, 252, 234, 250, 246, 180, 23, 6, 226, 95, 47, 218, 228, 47, 28, 244, 130, 71, 169, 244, 49, 83, 197, 71, 174, 222, 193>>],
    [secret |-> <<"p", "p">>, salt |-> <<"b", ".", "a">>, count |-> 1005,
     bits |-> <<209, 252, 55, 94, 182, 33, 113, 97, 175, 8, 49, 147, 16, 108, 45, 245, 58, 9, 161, 145, 198, 64, 102, 31, 237, 247, 37, 206, 25, 14, 4, 187>>],
    [secret |-> <<"p", "p">>, salt |-> <<"b", ".", "a">>, count |-> 1006,
     bits |-> <<232, 253, 38, 228, 229, 101, 219, 33, 195, 38, 101, 156, 50, 59, 167, 195, 194, 43, 78, 27, 94, 122, 84, 130, 178, 18, 137, 166, 92, 83, 130, 168>>],
    [secret |-> <<"p", "p">>, salt |-> <<"b", ".", "a">>, count |-> 1007,
     bits |-> <<53, 69, 16, 221, 13, 5, 156, 235, 167, 8, 217, 238, 112, 251, 188, 42, 203, 56, 32, 128, 159, 88, 115, 138, 235, 175, 166, 166, 183, 75, 99, 39>>],
    [secret |-> <<"p", "p">>, salt |-> <<"b", ".", "a">>, count |-> 1008,
     bits |-> <<188, 61, 221, 58, 167, 41, 113, 197, 61, 153, 3, 178, 35, 10, 128, 237, 182, 101, 175, 246, 86, 71, 100, 129, 186, 186, 226, 96, 95, 176, 198, 113>>],
    [secret |-> <<"p", "p">>, salt |-> <<"b", ".", "a">>, count |-> 100003,
     bits |-> <<118, 30, 53, 195, 191, 142, 18, 145, 82, 3, 3, 153, 222, 213, 91, 113, 98, 144, 137, 168, 29, 17, 133, 193, 158, 195, 160, 217, 244, 16, 61, 36>>],
    [secret |-> <<"p", "p">>, salt |-> <<"A", ".", "b">>, count |-> 1000,
     bits |-> <<234, 31, 21, 110, 63, 86, 244, 85, 124, 79, 120, 35, 158, 107, 160, 228, 139, 92, 199, 202, 92, 163, 69, 187, 161, 67, 30, 205, 27, 184, 236, 201>>],
    [secret |-> <<"p", "p">>, salt |-> <<"A", ".", "b">>, count |-> 1001,
     bits |-> <<226, 49, 3, 49, 238, 111, 205, 139, 137, 154, 64, 113, 163, 238, 198, 195, 94, 121, 188, 60, 248, 40, 39, 38, 75, 157, 167, 54, 191, 132, 51, 88>>],
    [secret |-> <<"p", "p">>, salt |-> <<"A", ".", "b">>, count |-> 1002,
     bits |-> <<148, 254, 129, 15, 213, 151, 191, 249, 122, 73, 167, 174, 122, 231, 81, 231, 146, 101, 109, 26, 72, 56, 78, 71, 162, 94, 73, 98, 200, 215, 61, 37>>],
    [secret |-> <<"p", "p">>, salt |-> <<"A", ".", "b">>, count |-> 1003,
     bits |-> <<235, 88, 116, 248, 97, 164, 134, 127, 34, 17, 116, 158, 154, 184, 118, 48, 196, 13, 153, 84, 208, 82, 225, 26, 153, 154, 31, 178, 4, 39, 232, 255>>],
    [secret |-> <<"p", "p">>, salt |-> <<"A", ".", "b">>, count |-> 1004,
     bits |-> <<83, 125, 223, 146, 112, 81, 107, 86, 224, 80, 117, 113, 225, 229, 102, 70, 152, 149, 162, 255, 89, 134, 133, 231, 247, 132, 57, 26, 238, 27, 234, 74>>],
    [secret |-> <<"p", "p">>, salt |-> <<"A", ".", "b">>, count |-> 1005,
     bits |-> <<210, 152, 134, 162, 10, 193, 153, 237, 5, 147, 37, 152, 186, 198, 83, 22, 127, 195, 158, 218, 159, 177, 197, 113, 2, 139, 44, 158, 33, 166, 185, 10>>],
    [secret |-> <<"p", "p">>, salt |-> <<"A", ".", "b">>, count |-> 1006,
     bits |-> <<51, 133, 61, 123, 238, 108, 167, 130, 90, 244, 185, 142, 145, 176, 110, 241, 175, 97, 113, 10, 181, 57, 242, 48, 236, 104, 154, 128, 216, 86, 203, 74>>],
    [secret |-> <<"p", "p">>, salt |-> <<"A", ".", "b">>, count |-> 1007,
     bits |-> <<83, 113, 107, 104, 17, 175, 111, 87, 17, 36, 172, 56, 33, 248, 246, 6, 107, 111, 76, 191, 179, 49, 96, 145, 64, 155, 97, 254, 89, 26, 238, 228>>],
    [secret |-> <<"p", "p">>, salt |-> <<"A", ".", "b">>, count |-> 1008,
     bits |-> <<252, 9, 14, 128, 110, 97, 223, 20, 237, 98, 104, 154, 227, 163, 31, 17, 152, 151, 141, 235, 67, 139, 37, 191, 49, 192, 123, 135, 136, 60, 210, 4>>],
    [secret |-> <<"p", "p">>, salt |-> <<"A", ".", "b">>, count |-> 100003,
     bits |-> <<152, 158, 252, 127, 143, 133, 147, 170, 50, 91, 120, 180, 243, 163, 9, 126, 211, 110, 99, 74, 47, 9, 18, 24, 155, 239, 79, 105, 123, 250, 54, 50>>],
    [secret |-> <<"p", "p">>, salt |-> <<"c", "o", "n", "f", "i", "g">>, count |-> 1000,
     bits |-> <<189, 183, 124, 248, 96, 152, 112, 178, 192, 218, 65, 243, 218, 23, 79, 78, 173, 221, 64, 104, 155, 191, 31, 169, 185, 74, 106, 159, 39, 154, 230, 171>>],
    [secret |-> <<"p", "p">>, salt |-> <<"c", "o", "n", "f", "i", "g">>, count |-> 1001,
     bits |-> <<228, 169, 241, 53, 139, 86, 194, 186, 242, 167, 250, 89, 94, 15, 70, 69, 117, 48, 158, 48, 238, 7, 185, 95, 159, 200, 194, 24, 179, 37, 82, 76>>],
    [secret |-> <<"p", "p">>, salt |-> <<"c", "o", "n", "f", "i", "g">>, count |-> 1002,
     bits |-> <<130, 30, 194, 170, 197, 255, 244, 136, 69, 230, 193, 162, 103, 193, 199, 253, 42, 251, 250, 84, 157, 221, 67, 169, 77, 120, 115, 190, 135, 96, 210, 188>>],
    [secret |-> <<"p", "p">>, salt |-> <<"c", "o", "n", "f", "i", "g">>, count |-> 1003,
     bits |-> <<89, 158, 32, 52, 91, 147, 224, 119, 22, 142, 194, 17, 0, 123, 48, 85, 25, 120, 12, 20, 175, 52, 248, 117, 97, 98, 162, 189, 140, 78, 38, 92>>],
    [secret |-> <<"p", "p">>, salt |-> <<"c", "o", "n", "f", "i", "g">>, count |-> 1004,
     bits |-> <<201, 131, 133, 236, 222, 175, 125, 187, 25, 75, 83, 4, 96, 173, 102, 176, 112, 156, 31, 170, 118, 109, 54, 115, 176, 2, 114, 69, 185, 144, 249, 134>>],
    [secret |-> <<"p", "p">>, salt |-> <<"c", "o", "n", "f", "i", "g">>, count |-> 1005,
     bits |-> <<67, 217, 151, 43, 13, 184, 5, 200, 234, 42, 123, 150, 133, 228, 78, 166, 206, 225, 136, 241, 121, 200, 132, 60, 137, 207, 249, 116, 2, 126, 162, 231>>],
    [secret |-> <<"p", "p">>, salt |-> <<"c", "o", "n", "f", "i", "g">>, count |-> 1006,
     bits |-> <<58, 145, 113, 196, 101, 138, 57, 193, 136, 158, 200, 96, 13, 167, 210, 126, 12, 20, 19, 232, 197, 187, 178, 16, 42, 169, 31, 254, 186, 255, 25, 226>>],
    [secret |-> <<"p", "p">>, salt |-> <<"c", "o", "n", "f", "i", "g">>, count |-> 1007,
     bits |-> <<254, 149, 13, 222, 170, 101, 175, 104, 59, 82, 143, 167, 243, 61, 151, 172, 128, 24, 87, 204, 107, 145, 162, 41, 20, 17, 53, 0, 196, 212, 62, 119>>],
    [secret |-> <<"p", "p">>, salt |-> <<"c", "o", "n", "f", "i", "g">>, count |-> 1008,
     bits |-> <<255, 194, 216, 234, 202, 154, 50, 199, 153, 1, 238, 245, 229, 51, 18, 73, 131, 26, 89, 162, 244, 206, 242, 255, 172, 53, 209, 182, 146, 178, 164, 161>>],
    [secret |-> <<"p", "p">>, salt |-> <<"c", "o", "n", "f", "i", "g">>, count |-> 100003,
     bits |-> <<34, 44, 205, 241, 115, 47, 3, 169, 236, 116, 166, 141, 57, 63, 122, 65, 215, 163, 253, 18, 148, 72, 35, 64, 183, 241, 136, 204, 220, 43, 0, 122>>],
    [secret |-> <<"p", "p", "p">>, salt |-> <<"a", ".", "b">>, count |-> 1000,
     bits |-> <<67, 38, 3, 177, 41, 186, 30, 71, 177, 62, 52, 116, 98, 218, 77, 137, 92, 118, 210, 177, 215, 178, 242, 237, 104, 219, 136, 117, 238, 30, 255, 125>>],
    [secret |-> <<"p", "p", "p">>, salt |-> <<"a", ".", "b">>, count |-> 1001,
     bits |-> <<109, 2, 208, 166, 242, 132, 167, 237, 164, 43, 31, 60, 159, 25, 45, 124, 54, 16, 17, 13, 50, 92, 11, 104, 165, 56, 118, 42, 37, 56, 229, 135>>],
    [secret |-> <<"p", "p", "p">>, salt |-> <<"a", ".", "b">>, count |-> 1002,
     bits |-> <<84, 150, 204, 208, 157, 220, 182, 140, 21, 116, 10, 162, 198, 205, 95, 93, 94, 183, 16, 39, 141, 75, 12, 0, 68, 214, 212, 110, 242, 157, 200, 193>>],
    [secret |-> <<"p", "p", "p">>, salt |-> <<"a", ".", "b">>, count |-> 1003,
     bits |-> <<237, 167, 25, 115, 67, 194, 21, 75, 99, 0, 74, 159, 156, 90, 25, 34, 0, 175, 117, 194, 118, 68, 162, 51, 229, 136, 229, 96, 112, 91, 129, 156>>],
    [secret |-> <<"p", "p", "p">>, salt |-> <<"a", ".", "b">>, count |-> 1004,
     bits |-> <<121, 249, 212, 175, 226, 39, 171, 246, 43, 219, 210, 254, 40, 251, 93, 238, 196, 23, 142, 89, 11, 253, 108, 42, 203, 194, 185, 127, 173, 0, 146, 220>>],
    [secret |-> <<"p", "p", "p">>, salt |-> <<"a", ".", "b">>, count |-> 1005,
     bits |-> <<192, 71, 25, 121, 7, 239, 214, 59, 24, 168, 196, 177, 73, 189, 251, 11, 53, 31, 195, 230, 33, 199, 2, 213, 188, 142, 213, 65, 100, 92, 88, 140>>],
    [secret |-> <<"p", "p", "p">>, salt |-> <<"a", ".", "b">>, count |-> 1006,
     bits |-> <<22, 169, 251, 172, 179, 45, 69, 25, 120, 164, 227, 18, 162, 78, 210, 136, 105, 237, 83, 106, 142, 76, 249, 156, 72, 130, 250, 132, 26, 154, 164, 242>>],
    [secret |-> <<"p", "p", "p">>, salt |-> <<"a", ".", "b">>, count |-> 1007,
     bits |-> <<213, 227, 204, 151, 157, 239, 104, 140, 82, 119, 54, 190, 157, 40, 7, 216, 102, 255, 90, 41, 100, 94, 177, 143, 175, 1, 6, 170, 36, 183, 70, 247>>],
    [secret |-> <<"p", "p", "p">>, salt |-> <<"a", ".", "b">>, count |-> 1008,
     bits |-> <<250, 114, 169, 77, 142, 110, 211, 175, 145, 194, 176, 2, 91, 61, 185, 96, 45, 82, 104, 123, 70, 46, 119, 168, 223, 255, 176, 171, 73, 191, 180, 227>>],
    [secret |-> <<"p", "p", "p">>, salt |-> <<"a", ".", "b">>, count |-> 100003,
     bits |-> <<194, 32, 138, 212, 225, 107, 17, 133, 132, 35, 172, 219, 88, 111, 202, 156, 84, 72, 37, 217, 84, 114, 92, 193, 219, 78, 62, 5, 204, 137, 83, 162>>],
    [secret |-> <<"p", "p", "p">>, salt |-> <<"b", ".", "a">>, count |-> 1000,
     bits |-> <<17, 28, 209, 181, 112, 89, 145, 10, 221, 106, 88, 255, 193, 114, 32, 175, 92, 12, 28, 110, 63, 238, 253, 23, 162, 3, 129, 146, 177, 4, 57, 243>>],
    [secret |-> <<"p", "p", "p">>, salt |-> <<"b", ".", "a">>, count |-> 1001,
     bits |-> <<151, 153, 114, 90, 183, 73, 188, 174, 247, 211, 56, 225, 179, 105, 185, 238, 9, 197, 7, 228, 130, 62, 107, 138, 205, 14, 187, 8, 7, 69, 216, 141>>],
    [secret |-> <<"p", "p", "p">>, salt |-> <<"b", ".", "a">>, count |-> 1002,
     bits |-> <<31, 248, 205, 228, 93, 144, 215, 142, 33, 230, 224, 209, 129, 226, 123, 190, 78, 75, 214, 203, 203, 187, 106, 39, 40, 0, 200, 88, 15, 127, 59, 153>>],
    [secret |-> <<"p", "p", "p">>, salt |-> <<"b", ".", "a">>, count |-> 1003,
     bits |-> <<220, 232, 62, 10, 66, 151, 140, 196, 237, 112, 69, 195, 113, 223, 172, 244, 239, 166, 249, 132, 155, 77, 45, 150, 205, 47, 235, 164, 42, 20, 176, 167>>],
    [secret |-> <<"p", "p", "p">>, salt |-> <<"b", ".", "a">>, count |-> 1004,
     bits |-> <<165, 179, 73, 7, 149, 86, 225, 71, 30, 188, 159, 207, 38, 247, 139, 123, 72, 254, 171, 96, 49, 125, 208, 38, 10, 118, 217, 78, 126, 82, 204, 24>>],
    [secret |-> <<"p", "p", "p">>, salt |-> <<"b", ".", "a">>, count |-> 1005,
     bits |-> <<252, 204, 56, 183, 193, 141, 113, 242, 44, 248, 110, 240, 151, 33, 21, 205, 188, 130, 229, 39, 120, 191, 250, 132, 69, 94, 251, 13, 251, 41, 210, 86>>],
    [secret |-> <<"p", "p", "p">>, salt |-> <<"b", ".", "a">>, count |-> 1006,
     bits |-> <<119, 213, 95, 9, 163, 83, 166, 103, 208, 24, 149, 133, 120, 113, 218, 6, 7, 169, 149, 211, 117, 32, 60, 21, 156, 11, 143, 160, 119, 255, 225, 134>>],
    [secret |-> <<"p", "p", "p">>, salt |-> <<"b", ".", "a">>, count |-> 1007,
     bits |-> <<48, 130, 179, 64, 198, 0, 205, 103, 248, 242, 67, 17, 109, 149, 76, 2, 107, 95, 20, 44, 184, 253, 78, 3, 240, 195, 245, 183, 220, 216, 111, 233>>],
    [secret |-> <<"p", "p", "p">>, salt |-> <<"b", ".", "a">>, count |-> 1008,
     bits |-> <<76, 51, 89, 87, 155, 203, 67, 56, 195, 60, 14, 107, 192, 91, 135, 47, 232, 2, 42, 94, 168, 200, 101, 9, 217, 45, 119, 39, 117, 232, 59, 183>>],
    [secret |-> <<"p", "p", "p">>, salt |-> <<"b", ".", "a">>, count |-> 100003,
     bits |-> <<228, 171, 191, 20, 191, 212, 177, 252, 215, 165, 60, 83, 23, 200, 94, 198, 23, 44, 218, 43, 30, 129, 255, 95, 32, 192, 112, 78, 179, 106, 199, 42>>],
    [secret |-> <<"p", "p", "p">>, salt |-> <<"A", ".", "b">>, count |-> 1000,
     bits |-> <<255, 180, 199, 122, 230, 24, 155, 35, 211, 152, 17, 36, 195, 243, 143, 46, 232, 226, 233, 192, 74, 248, 81, 126, 225, 15, 223, 130, 14, 111, 37, 6>>],
    [secret |-> <<"p", "p", "p">>, salt |-> <<"A", ".", "b">>, count |-> 1001,
     bits |-> <<207, 217, 100, 234, 113, 185, 245, 90, 87, 30, 161, 100, 236, 235, 251, 233, 185, 204, 55, 4, 221, 248, 185, 95, 59, 24, 23, 32, 159, 192, 39, 171>>],
    [secret |-> <<"p", "p", "p">>, salt |-> <<"A", ".", "b">>, count |-> 1002,
     bits |-> <<95, 175, 204, 106, 241, 155, 94, 48, 188, 255, 210, 31, 95, 53, 42, 204, 2, 188, 186, 179, 10, 79, 189, 221, 110, 121, 94, 51, 162, 236, 22, 135>>],
    [secret |-> <<"p", "p", "p">>, salt |-> <<"A", ".", "b">>, count |-> 1003,
     bits |-> <<235, 118, 247, 210, 17, 36, 216, 116, 66, 3, 174, 1, 97, 97, 220, 109, 128, 250, 150, 50, 130, 133, 169, 29, 158, 107, 182, 25, 35, 170, 23, 95>>],
    [secret |-> <<"p", "p", "p">>, salt |-> <<"A", ".", "b">>, count |-> 1004,
     bits |-> <<163, 59, 222, 118, 80, 55, 125, 177, 220, 151, 105, 102, 172, 123, 84, 224, 218, 200, 63, 212, 199, 137, 16, 180, 255, 17, 12, 89, 17, 187, 120, 97>>],
    [secret |-> <<"p", "p", "p">>, salt |-> <<"A", ".", "b">>, count |-> 1005,
     bits |-> <<235, 117, 20, 211, 198, 122, 172, 49, 30, 162, 209, 14, 79, 255, 148, 85, 117, 66, 89, 124, 141, 111, 173, 39, 165, 243, 59, 194, 236, 87, 88, 238>>],
    [secret |-> <<"p", "p", "p">>, salt |-> <<"A", ".", "b">>, count |-> 1006,
     bits |-> <<177, 56, 50, 50, 89, 6, 126, 172, 240, 32, 15, 97, 161, 243, 239, 248, 209, 185, 124, 117, 230, 77, 84, 165, 91, 58, 151, 21, 206, 170, 91, 192>>],
    [secret |-> <<"p", "p", "p">>, salt |-> <<"A", ".", "b">>, count |-> 1007,
     bits |-> <<191, 254, 87, 6, 42, 36, 164, 202, 249, 227, 176, 199, 50, 101, 49, 34, 231, 79, 129, 254, 170, 99, 58, 251, 89, 150, 211, 242, 170, 74, 21, 240>>],
    [secret |-> <<"p", "p", "p">>, salt |-> <<"A", ".", "b">>, count |-> 1008,
     bits |-> <<125, 185, 195, 84, 224, 89, 47, 105, 87, 84, 165, 135, 44, 174, 104, 127, 240, 87, 152, 136, 180, 48, 59, 255, 189, 132, 116, 67, 34, 121, 49, 114>>],
    [secret |-> <<"p", "p", "p">>, salt |-> <<"A", ".", "b">>, count |-> 100003,
     bits |-> <<25, 197, 40, 131, 156, 9, 231, 191, 110, 98, 103, 194, 190, 202, 143, 75, 113, 125, 38, 117, 100, 192, 204, 169, 53, 239, 218, 62, 100, 176, 48, 120>>],
    [secret |-> <<"p", "p", "p">>, salt |-> <<"c", "o", "n", "f", "i", "g">>, count |-> 1000,
     bits |-> <<142, 89, 11, 209, 197, 150, 228, 231, 118, 36, 199, 208, 53, 43, 188, 118, 250, 48, 230, 98, 149, 166, 57, 83, 182, 53, 81, 2, 99, 109, 164, 234>>],
    [secret |-> <<"p", "p", "p">>, salt |-> <<"c", "o", "n", "f", "i", "g">>, count |-> 1001,
     bits |-> <<111, 228, 216, 88, 94, 235, 66, 176, 101, 143, 37, 150, 22, 23, 69, 33, 239, 109, 166, 234, 82, 209, 203, 62, 191, 57, 156, 147, 169, 86, 147, 227>>],
    [secret |-> <<"p", "p", "p">>, salt |-> <<"c", "o", "n", "f", "i", "g">>, count |-> 1002,
     bits |-> <<70, 54, 218, 173, 77, 25, 34, 72, 158, 86, 109, 85, 134, 15, 119, 85, 255, 45, 188, 141, 212, 12, 52, 24, 19, 94, 201, 238, 75, 124, 118, 206>>],
    [secret |-> <<"p", "p", "p">>, salt |-> <<"c", "o", "n", "f", "i", "g">>, count |-> 1003,
     bits |-> <<173, 183, 24, 242, 2, 12, 124, 14, 177, 70, 227, 230, 139, 169, 26, 151, 154, 107, 51, 148, 108, 102, 5, 165, 121, 100, 93, 7, 201, 179, 225, 88>>],
    [secret |-> <<"p", "p", "p">>, salt |-> <<"c", "o", "n", "f", "i", "g">>, count |-> 1004,
     bits |-> <<35, 145, 43, 0, 119, 50, 104, 3, 37, 2, 221, 92, 51, 152, 18, 44, 97, 246, 182, 114, 62, 187, 60, 73, 61, 34, 216, 52, 20, 78, 52, 180>>],
    [secret |-> <<"p", "p", "p">>, salt |-> <<"c", "o", "n", "f", "i", "g">>, count |-> 1005,
     bits |-> <<247, 200, 1, 168, 79, 35, 23, 106, 155, 136, 44, 109, 70, 158, 59, 157, 65, 121, 110, 8, 195, 136, 37, 126, 80, 253, 177, 188, 225, 89, 40, 5>>],
    [secret |-> <<"p", "p", "p">>, salt |-> <<"c", "o", "n", "f", "i", "g">>, count |-> 1006,
     bits |-> <<248, 237, 184, 233, 190, 233, 27, 51, 67, 55, 187, 195, 157, 25, 140, 9, 111, 213, 38, 201, 226, 147, 124, 229, 251, 207, 13, 78, 86, 200, 21, 196>>],
    [secret |-> <<"p", "p", "p">>, salt |-> <<"c", "o", "n", "f", "i", "g">>, count |-> 1007,
     bits |-> <<229, 8, 74, 204, 158, 204, 183, 229, 75, 78, 237, 221, 9, 119, 94, 9, 0, 236, 241, 174, 216, 58, 251, 71, 39, 222, 22, 183, 251, 31, 213, 33>>],
    [secret |-> <<"p", "p", "p">>, salt |-> <<"c", "o", "n", "f", "i", "g">>, count |-> 1008,
     bits |-> <<159, 211, 236, 47, 81, 66, 142, 47, 194, 134, 194, 212, 95, 250, 143, 57, 122, 5, 66, 100, 84, 27, 54, 63, 207, 109, 65, 97, 225, 168, 151, 216>>],
    [secret |-> <<"p", "p", "p">>, salt |-> <<"c", "o", "n", "f", "i", "g">>, count |-> 100003,
     bits |-> <<157, 169, 222, 233, 55, 115, 78, 56, 233, 186, 244, 202, 29, 142, 233, 41, 102, 161, 149, 137, 57, 141, 174, 97, 66, 20, 171, 188, 192, 103, 173, 2>>] >>

\* the secrets, salts and counts of the table, in the order of its rows
DerivedSecrets == << <<>>, <<"p">>, <<"p", "p">>, <<"p", "p", "p">> >>
DerivedNames == << <<"a", ".", "b">>, <<"b", ".", "a">>, <<"A", ".", "b">>,
                   <<"c", "o", "n", "f", "i", "g">> >>
DerivedCounts == <<1000, 1001, 1002, 1003, 1004, 1005, 1006, 1007, 1008, 100003>>

\* the place of x in a sequence, 0 when it is not in it
placeIn(seq, x) ==
    IF \E i \in 1..Len(seq) : seq[i] = x
    THEN CHOOSE i \in 1..Len(seq) : seq[i] = x
    ELSE 0

\* the row of DerivedKeys for a key
keyPlace(key) ==
    ((placeIn(DerivedSecrets, key.secret) - 1) * Len(DerivedNames)
        + placeIn(DerivedNames, key.salt) - 1) * Len(DerivedCounts)
    + placeIn(DerivedCounts, key.count)

\* deriveKey, lines 289-301, and exportKey, line 175: the 32 bytes of the
\* AES key; <<>> for what is no key
keyBits(key) ==
    IF /\ key.t = "AES"
       /\ placeIn(DerivedSecrets, key.secret) > 0
       /\ placeIn(DerivedNames, key.salt) > 0
       /\ placeIn(DerivedCounts, key.count) > 0
    THEN DerivedKeys[keyPlace(key)].bits
    ELSE <<>>

-----------------------------------------------------------------------------
(* AES-CBC with PKCS#7 padding (lines 127-131 and 309-313).                *)

NoMade == [key |-> NoKey, iv |-> <<>>, data |-> <<>>, plain |-> <<>>]

RECURSIVE cbcEncrypt(_, _, _, _)
RECURSIVE cbcChain(_, _, _, _)
\* the ciphertext blocks i.. of the padded bytes: a block is combined with
\* the ciphertext block before it (prev), the first one with the init vector
cbcEncrypt(w, prev, padded, i) ==
    IF i > Blocks(padded) THEN <<>>
    ELSE cbcChain(w, cipherBlock(w, XorBlock(Block(padded, i), prev)), padded, i)

\* the ciphertext block c of block i, followed by the blocks after it
cbcChain(w, c, padded, i) == c \o cbcEncrypt(w, c, padded, i + 1)

\* crypto.subtle.encrypt({name: "AES-CBC", iv}, key, plain): the record keeps
\* what the ciphertext data is the encryption of
encrypt(key, iv, plain) ==
    [key |-> key, iv |-> iv,
     data |-> cbcEncrypt(keySchedule(keyBits(key)), iv,
                         plain \o padding(Len(plain)), 1),
     plain |-> plain]

\* the ciphertext block before block i, the init vector before the first
chained(iv, data, i) == IF i = 1 THEN iv ELSE Block(data, i - 1)

RECURSIVE cbcDecrypt(_, _, _, _)
\* the blocks i.. of what the ciphertext data decrypts to
cbcDecrypt(w, iv, data, i) ==
    IF i > Blocks(data) THEN <<>>
    ELSE XorBlock(invCipherBlock(w, Block(data, i)), chained(iv, data, i))
         \o cbcDecrypt(w, iv, data, i + 1)

\* the padding check of crypto.subtle.decrypt on the decrypted bytes
unpadded(bytes) ==
    IF paddingValid(bytes)
    THEN [error |-> "none", plain |-> unpad(bytes)]
    ELSE [error |-> "OperationError", plain |-> <<>>]

\* crypto.subtle.decrypt({name: "AES-CBC", iv}, key, data): OperationError
\* for an init vector that has not 16 bytes, for data that is empty or no
\* sequence of whole blocks, and for decrypted bytes whose padding is not
\* valid
decrypt(key, iv, data) ==
    IF Len(iv) # BlockLength \/ data = <<>> \/ Len(data) % BlockLength # 0
    THEN [error |-> "OperationError", plain |-> <<>>]
    ELSE unpadded(cbcDecrypt(keySchedule(keyBits(key)), iv, data, 1))

-----------------------------------------------------------------------------
(* Text and bytes: TextEncoder and TextDecoder (convert.js lines 15-29).   *)

\* a code unit that is half of a pair: the pair of a high and a low
\* surrogate is one code point above U+FFFF
IsHighSurrogate(c) ==
    c \notin DOMAIN PrintableCode /\ codeOf(c) \in 55296..56319

IsLowSurrogate(c) ==
    c \notin DOMAIN PrintableCode /\ codeOf(c) \in 56320..57343

\* the code point of a pair of surrogates
pairedCodePoint(high, low) ==
    65536 + 1024 * (codeOf(high) - 55296) + (codeOf(low) - 56320)

\* UTF-8 of a code point
utf8(cp) ==
    IF cp < 128 THEN <<cp>>
    ELSE IF cp < 2048 THEN <<192 + (cp \div 64), 128 + (cp % 64)>>
    ELSE IF cp < 65536
    THEN <<224 + (cp \div 4096), 128 + ((cp \div 64) % 64), 128 + (cp % 64)>>
    ELSE <<240 + (cp \div 262144), 128 + ((cp \div 4096) % 64),
           128 + ((cp \div 64) % 64), 128 + (cp % 64)>>

\* TextEncoder.encode of the code unit at i: a pair of surrogates is encoded
\* at its first half, a surrogate without its other half as U+FFFD
encodedAt(text, i) ==
    IF text[i] \in DOMAIN PrintableCode THEN <<PrintableCode[text[i]]>>
    ELSE IF IsHighSurrogate(text[i])
    THEN IF i < Len(text) /\ IsLowSurrogate(text[i + 1])
         THEN utf8(pairedCodePoint(text[i], text[i + 1]))
         ELSE <<239, 191, 189>>
    ELSE IF IsLowSurrogate(text[i])
    THEN IF i > 1 /\ IsHighSurrogate(text[i - 1]) THEN <<>> ELSE <<239, 191, 189>>
    ELSE utf8(codeOf(text[i]))

\* Converter.encodeFromText
encodeFromText(text) == Flatten([i \in 1..Len(text) |-> encodedAt(text, i)])

\* the code units of a code point
codeUnits(cp) ==
    IF cp < 65536 THEN <<charOf(cp)>>
    ELSE <<charOf(55296 + ((cp - 65536) \div 1024)),
           charOf(56320 + ((cp - 65536) % 1024))>>

\* a byte of 80..BF: it can continue a code point and cannot start one
IsContinuation(b) == b \in 128..191

\* the bytes that have to follow the lead byte b of a code point; 0 for a
\* byte that is no lead
needed(b) ==
    IF b \in 194..223 THEN 1
    ELSE IF b \in 224..239 THEN 2
    ELSE IF b \in 240..244 THEN 3
    ELSE 0

\* the range the byte after the lead byte b has to be in
lowerOf(b) == IF b = 224 THEN 160 ELSE IF b = 240 THEN 144 ELSE 128
upperOf(b) == IF b = 237 THEN 159 ELSE IF b = 244 THEN 143 ELSE 191

\* the bytes the decoder of TextDecoder reads as one code point from the
\* byte at j on, which is no continuation: the lead and the bytes behind it
\* that are in range, up to the needed ones
unitLength(bytes, j) ==
    IF \/ needed(bytes[j]) = 0
       \/ j + 1 > Len(bytes)
       \/ bytes[j + 1] \notin lowerOf(bytes[j])..upperOf(bytes[j])
    THEN 1
    ELSE IF \/ needed(bytes[j]) = 1
            \/ j + 2 > Len(bytes)
            \/ ~IsContinuation(bytes[j + 2])
    THEN 2
    ELSE IF \/ needed(bytes[j]) = 2
            \/ j + 3 > Len(bytes)
            \/ ~IsContinuation(bytes[j + 3])
    THEN 3
    ELSE 4

\* the code point of the complete bytes from the lead at j on
codePoint(bytes, j) ==
    IF needed(bytes[j]) = 1
    THEN 64 * (bytes[j] % 32) + (bytes[j + 1] % 64)
    ELSE IF needed(bytes[j]) = 2
    THEN 4096 * (bytes[j] % 16) + 64 * (bytes[j + 1] % 64) + (bytes[j + 2] % 64)
    ELSE 262144 * (bytes[j] % 8) + 4096 * (bytes[j + 1] % 64)
         + 64 * (bytes[j + 2] % 64) + (bytes[j + 3] % 64)

\* the nearest byte before the continuation at i that is no continuation,
\* up to three bytes back; 0 when there is none
leadOf(bytes, i) ==
    IF i > 1 /\ ~IsContinuation(bytes[i - 1]) THEN i - 1
    ELSE IF i > 2 /\ ~IsContinuation(bytes[i - 2]) /\ IsContinuation(bytes[i - 1])
    THEN i - 2
    ELSE IF /\ i > 3
            /\ ~IsContinuation(bytes[i - 3])
            /\ IsContinuation(bytes[i - 2])
            /\ IsContinuation(bytes[i - 1])
    THEN i - 3
    ELSE 0

\* what the UTF-8 decoder of TextDecoder gives at the byte at i: nothing for
\* a continuation read with its lead, the code point at a lead with all its
\* bytes, and U+FFFD for a byte that cannot start or continue a code point
\* and for a lead whose bytes are cut short
decodedAt(bytes, i) ==
    IF IsContinuation(bytes[i])
    THEN IF /\ leadOf(bytes, i) > 0
            /\ leadOf(bytes, i) + unitLength(bytes, leadOf(bytes, i)) > i
         THEN <<>>
         ELSE <<ReplacementChar>>
    ELSE IF bytes[i] < 128 THEN <<charOf(bytes[i])>>
    ELSE IF /\ needed(bytes[i]) > 0
            /\ unitLength(bytes, i) = needed(bytes[i]) + 1
    THEN codeUnits(codePoint(bytes, i))
    ELSE <<ReplacementChar>>

\* new TextDecoder("utf-8") leaves out a byte order mark at the start
withoutByteOrderMark(text) ==
    IF text # <<>> /\ text[1] = ByteOrderMark THEN Tail(text) ELSE text

\* Converter.decodeToText
decodeToText(bytes) ==
    withoutByteOrderMark(Flatten([i \in 1..Len(bytes) |-> decodedAt(bytes, i)]))

-----------------------------------------------------------------------------
(* Service objects: the properties name, iterations and pattern, and the   *)
(* code that reads and writes them.                                        *)

NameKey == <<"n", "a", "m", "e">>
IterationsKey == <<"i", "t", "e", "r", "a", "t", "i", "o", "n", "s">>
PatternKey == <<"p", "a", "t", "t", "e", "r", "n">>

RECURSIVE DigitsOf(_)
DigitsOf(n) ==
    IF n < 10 THEN <<Digits[n + 1]>>
    ELSE DigitsOf(n \div 10) \o <<Digits[(n % 10) + 1]>>

\* an integer as toString and JSON.stringify write it
numberText(n) == IF n < 0 THEN <<"-">> \o DigitsOf(0 - n) ELSE DigitsOf(n)

DigitValue(c) == (CHOOSE i \in 1..10 : Digits[i] = c) - 1

IsDigit(c) == \E d \in 1..10 : Digits[d] = c

IsDigits(text) ==
    text # <<>> /\ \A i \in 1..Len(text) : IsDigit(text[i])

RECURSIVE DigitsValue(_, _)
DigitsValue(text, acc) ==
    IF text = <<>> THEN acc
    ELSE DigitsValue(Tail(text), 10 * acc + DigitValue(Head(text)))

\* the number a JSON number token of digits spells
numberOf(text) ==
    IF Head(text) = "-" THEN 0 - DigitsValue(Tail(text), 0)
    ELSE DigitsValue(text, 0)

NullWord == <<"n", "u", "l", "l">>
TrueWord == <<"t", "r", "u", "e">>
FalseWord == <<"f", "a", "l", "s", "e">>

\* service.iterations: an integer, a string (text holds its characters),
\* null, true or false (text holds the word), or no value
Num(n) == [t |-> "number", v |-> n, text |-> <<>>]
Str(text) == [t |-> "string", v |-> 0, text |-> text]
Literal(word) == [t |-> "literal", v |-> 0, text |-> word]
NoIter == [t |-> "undefined", v |-> 0, text |-> <<>>]

\* the string a value of service.iterations is converted to (by parseInt and
\* by toString at line 233)
iterationsText(iterations) ==
    CASE iterations.t = "number" -> numberText(iterations.v)
      [] iterations.t \in {"string", "literal"} -> iterations.text
      [] OTHER -> <<"u", "n", "d", "e", "f", "i", "n", "e", "d">>

RECURSIVE digitPrefix(_)
\* the digits a text starts with
digitPrefix(text) ==
    IF text # <<>> /\ IsDigit(Head(text))
    THEN <<Head(text)>> \o digitPrefix(Tail(text))
    ELSE <<>>

RECURSIVE withoutLeadingZeros(_)
withoutLeadingZeros(digits) ==
    IF digits # <<>> /\ Head(digits) = "0"
    THEN withoutLeadingZeros(Tail(digits))
    ELSE digits

\* 2^32 - 1, the greatest unsigned long
GreatestUnsignedLong == <<"4", "2", "9", "4", "9", "6", "7", "2", "9", "5">>

\* the integer the digits spell as the unsigned long [EnforceRange] of
\* Pbkdf2Params.iterations; -1 for a number above 2^32 - 1, which is a
\* TypeError
unsignedLong(digits) ==
    LET d == withoutLeadingZeros(digits)
    IN  IF \/ Len(d) > Len(GreatestUnsignedLong)
           \/ Len(d) = Len(GreatestUnsignedLong) /\ StrLess(GreatestUnsignedLong, d)
        THEN -1
        ELSE DigitsValue(d, 0)

\* the integer part of the decimal number with the digits int before the
\* point, the digits frac behind it and the exponent e
shifted(int, frac, e) ==
    IF e >= 0
    THEN int \o SubSeq(frac \o [i \in 1..e |-> "0"], 1, e)
    ELSE IF Len(int) + e > 0 THEN SubSeq(int, 1, Len(int) + e) ELSE <<>>

\* the exponent the digits spell; one of more than four digits is so large
\* that every number of the model is out of range or 0 with it
exponentOf(digits) ==
    LET d == withoutLeadingZeros(digits)
    IN  IF Len(d) > 4 THEN 99999 ELSE DigitsValue(d, 0)

\* the number of the digits int, the fraction frac and an exponent whose
\* digits are all of expText, as an unsigned long
countWithExponent(int, frac, negative, expText) ==
    IF ~IsDigits(expText) THEN -1
    ELSE unsignedLong(shifted(int, frac,
                              IF negative THEN 0 - exponentOf(expText)
                              ELSE exponentOf(expText)))

\* the number of the digits int and the fraction frac, rest being what
\* follows them: nothing or an exponent
countWithFraction(int, frac, rest) ==
    IF rest = <<>> THEN unsignedLong(int)
    ELSE IF Head(rest) \notin {"e", "E"} THEN -1
    ELSE IF Len(rest) >= 2 /\ rest[2] \in {"+", "-"}
    THEN countWithExponent(int, frac, rest[2] = "-", SubSeq(rest, 3, Len(rest)))
    ELSE countWithExponent(int, frac, FALSE, Tail(rest))

\* the number of the digits int followed by the point and afterPoint
countWithPoint(int, afterPoint) ==
    countWithFraction(int, digitPrefix(afterPoint),
                      SubSeq(afterPoint, Len(digitPrefix(afterPoint)) + 1,
                             Len(afterPoint)))

\* the number of the digits int followed by rest
countFrom(int, rest) ==
    IF rest # <<>> /\ Head(rest) = "." THEN countWithPoint(int, Tail(rest))
    ELSE countWithFraction(int, <<>>, rest)

\* the number a string that starts with a digit spells, as an unsigned long
countOfNumber(s) ==
    countFrom(digitPrefix(s), SubSeq(s, Len(digitPrefix(s)) + 1, Len(s)))

\* the string 1000 + service.iterations (line 174) of a string
\* service.iterations = text, as the unsigned long deriveKey hands to PBKDF2
\* (line 292).  The string is converted to a number: white space at its end
\* is skipped, then it has to be digits, a fraction and an exponent (the last
\* two may be missing), else it is NaN.  The number is truncated.  -1 stands
\* for NaN and for a number above 2^32 - 1, with which the conversion throws a
\* TypeError.  (Exact for a string of at most 15 significant digits.)
countOfString(text) ==
    countOfNumber(TrimEnd(numberText(ServiceIterationsBase) \o text))

\* 1000 + service.iterations (line 174) as the unsigned long deriveKey hands
\* to PBKDF2: a number adds, a string concatenates ("1000" + "3" is "10003"),
\* null and false add 0, true adds 1, and undefined gives NaN.  -1 stands
\* for what the conversion to an unsigned long throws a TypeError on:
\* NaN and a number below 0 or above 2^32 - 1
iterationCount(iterations) ==
    CASE iterations.t = "number" ->
            IF ServiceIterationsBase + iterations.v < 0 THEN -1
            ELSE ServiceIterationsBase + iterations.v
      [] iterations.t = "string" -> countOfString(iterations.text)
      [] iterations.t = "literal" ->
            IF iterations.text = TrueWord THEN ServiceIterationsBase + 1
            ELSE ServiceIterationsBase
      [] OTHER -> -1

\* parseInt(service.iterations, 10)
parseInt10(iterations) == parseInt(iterationsText(iterations), 10)

normalizeIterationsAlways(iterations) == Num(1)

\* deriveServiceKeys, lines 154-159: iterations is kept when it is defined and
\* parseInt gives a number, and set to 1 otherwise
normalizeIterations(iterations) ==
    IF iterations.t # "undefined" /\ ~parseInt10(iterations).nan
    THEN iterations
    ELSE Num(1)

\* the characters of a pattern key
patternText(p) ==
    CASE p = "c16" -> <<"c", "1", "6">>
      [] p = "c12" -> <<"c", "1", "2">>
      [] p = "c8" -> <<"c", "8">>
      [] p = "y16" -> <<"y", "1", "6">>
      [] p = "n6" -> <<"n", "6">>
      [] p = "n5" -> <<"n", "5">>
      [] p = "n4" -> <<"n", "4">>
      [] OTHER -> <<"z", "z">>

\* the key of Patterns.templates a text spells; zz stands for every text that
\* spells none
patternOf(text) ==
    IF \E p \in DeclaredPatterns : patternText(p) = text
    THEN CHOOSE p \in DeclaredPatterns : patternText(p) = text
    ELSE "zz"

\* a Service object: keys holds the names of its own properties in their
\* order, which is the order JSON.stringify writes them in; pattern is the
\* key of Patterns.templates that service.pattern spells and spelled its
\* characters; extras holds the properties of other names
Service(name, iterations, pattern, keys) ==
    [name |-> name, iterations |-> iterations, pattern |-> pattern,
     spelled |-> IF pattern = Absent THEN <<>> ELSE patternText(pattern),
     keys |-> keys, extras |-> <<>>]

HasKey(r, k) == \E i \in 1..Len(r.keys) : r.keys[i] = k

\* an assignment to a property: a new property comes behind the others
withKey(r, k) == IF HasKey(r, k) THEN r.keys ELSE Append(r.keys, k)

\* service.iterations = value
withIterations(r, value) ==
    [r EXCEPT !.iterations = value, !.keys = withKey(r, IterationsKey)]

\* service.pattern = the text of the pattern key p
withPattern(r, p) ==
    [r EXCEPT !.pattern = p, !.spelled = patternText(p),
              !.keys = withKey(r, PatternKey)]

\* part_004 line 30: const newService = {name: candidate, iterations: 1}
newServiceWithoutIterations(candidate) ==
    Service(candidate, NoIter, Absent, <<NameKey>>)

newService(candidate) ==
    Service(candidate, Num(1), Absent, <<NameKey, IterationsKey>>)

-----------------------------------------------------------------------------
(* JSON.stringify and JSON.parse of Config.services.                       *)

member(k, t, text) == [k |-> k, t |-> t, text |-> text]

\* the property iterations as JSON.stringify writes it: a property whose
\* value is undefined is left out
iterationsMember(iterations) ==
    CASE iterations.t = "number" ->
            <<member(IterationsKey, "number", numberText(iterations.v))>>
      [] iterations.t = "string" ->
            <<member(IterationsKey, "string", iterations.text)>>
      [] iterations.t = "literal" ->
            <<member(IterationsKey, "literal", iterations.text)>>
      [] OTHER -> <<>>

\* the property k of a Service as JSON.stringify writes it
propertyOf(r, k) ==
    IF k = NameKey THEN <<member(NameKey, "string", r.name)>>
    ELSE IF k = IterationsKey THEN iterationsMember(r.iterations)
    ELSE IF k = PatternKey
    THEN IF r.pattern = Absent THEN <<>>
         ELSE <<member(PatternKey, "string", r.spelled)>>
    ELSE SelectSeq(r.extras, LAMBDA m : m.k = k)

\* the members JSON.stringify writes for a Service: its own properties in
\* their order
membersOf(r) == Flatten([i \in 1..Len(r.keys) |-> propertyOf(r, r.keys[i])])

\* a character of a string as JSON.stringify writes it
escaped(c) ==
    CASE c = "\"" -> <<"\\", "\"">>
      [] c = "\\" -> <<"\\", "\\">>
      [] c = LineFeed -> <<"\\", "n">>
      [] c = CarriageReturn -> <<"\\", "r">>
      [] c = Tab -> <<"\\", "t">>
      [] c = Backspace -> <<"\\", "b">>
      [] c = FormFeed -> <<"\\", "f">>
      [] OTHER -> IF c \in ControlChars
                  THEN <<"\\", "u", "0", "0">> \o hexByte(codeOf(c))
                  ELSE <<c>>

\* a surrogate without its other half is written \udXXX
escapedSurrogate(c) == <<"\\", "u">> \o hexByte(codeOf(c) \div 256)
                       \o hexByte(codeOf(c) % 256)

\* the character at i of a string as JSON.stringify writes it
escapedAt(text, i) ==
    IF text[i] \in DOMAIN PrintableCode THEN escaped(text[i])
    ELSE IF IsHighSurrogate(text[i])
    THEN IF i < Len(text) /\ IsLowSurrogate(text[i + 1])
         THEN <<text[i]>>
         ELSE escapedSurrogate(text[i])
    ELSE IF IsLowSurrogate(text[i])
    THEN IF i > 1 /\ IsHighSurrogate(text[i - 1])
         THEN <<text[i]>>
         ELSE escapedSurrogate(text[i])
    ELSE escaped(text[i])

escapedText(text) == Flatten([i \in 1..Len(text) |-> escapedAt(text, i)])

quoted(text) == <<"\"">> \o escapedText(text) \o <<"\"">>

\* "key":value
memberText(m) ==
    quoted(m.k) \o <<":">>
    \o (IF m.t = "string" THEN quoted(m.text) ELSE m.text)

RECURSIVE joined(_)
\* the texts with a comma between them
joined(texts) ==
    IF texts = <<>> THEN <<>>
    ELSE IF Len(texts) = 1 THEN Head(texts)
    ELSE Head(texts) \o <<",">> \o joined(Tail(texts))

\* {"key":value,...}
objectText(members) ==
    <<"{">> \o joined([i \in 1..Len(members) |-> memberText(members[i])])
    \o <<"}">>

\* JSON.stringify(Config.services) as Converter.encodeFromText takes it, line
\* 312: JSON.stringify(undefined) is undefined, which TextEncoder.encode takes
\* for its default, the empty text
stringify(registry) ==
    CASE registry.t = "array" ->
            <<"[">>
            \o joined([i \in 1..Len(registry.items) |->
                          objectText(membersOf(registry.items[i]))])
            \o <<"]">>
      [] registry.t = "null" -> NullWord
      [] registry.t = "emptyString" -> <<"\"", "\"">>
      [] registry.t = "object" -> <<"{", "}">>
      [] registry.t = "number" -> <<"5">>
      [] OTHER -> <<>>

\* white space of JSON
IsJsonSpace(c) == c \in {" ", Tab, LineFeed, CarriageReturn}

RECURSIVE skipSpace(_, _)
\* the first position from i on that holds no white space
skipSpace(s, i) ==
    IF i <= Len(s) /\ IsJsonSpace(s[i]) THEN skipSpace(s, i + 1) ELSE i

NoValue == [t |-> "undefined"]

\* the parser's results: a value and the position behind it, or a failure
Read(v, next) == [ok |-> TRUE, v |-> v, next |-> next]
NotRead == [ok |-> FALSE, v |-> NoValue, next |-> 0]

\* the character \uXXXX names
unicodeEscape(s, i) ==
    charOf(4096 * HexValue(s[i]) + 256 * HexValue(s[i + 1])
           + 16 * HexValue(s[i + 2]) + HexValue(s[i + 3]))

RECURSIVE readString(_, _, _)
\* a string whose opening quote is before position i: acc holds the
\* characters read so far
readString(s, i, acc) ==
    IF i > Len(s) THEN NotRead
    ELSE IF s[i] = "\"" THEN Read([t |-> "string", text |-> acc], i + 1)
    ELSE IF s[i] \in ControlChars THEN NotRead
    ELSE IF s[i] # "\\" THEN readString(s, i + 1, Append(acc, s[i]))
    ELSE IF i + 1 > Len(s) THEN NotRead
    ELSE IF s[i + 1] \in {"\"", "\\", "/"}
    THEN readString(s, i + 2, Append(acc, s[i + 1]))
    ELSE IF s[i + 1] = "n" THEN readString(s, i + 2, Append(acc, LineFeed))
    ELSE IF s[i + 1] = "r" THEN readString(s, i + 2, Append(acc, CarriageReturn))
    ELSE IF s[i + 1] = "t" THEN readString(s, i + 2, Append(acc, Tab))
    ELSE IF s[i + 1] = "b" THEN readString(s, i + 2, Append(acc, Backspace))
    ELSE IF s[i + 1] = "f" THEN readString(s, i + 2, Append(acc, FormFeed))
    ELSE IF /\ s[i + 1] = "u"
            /\ i + 5 <= Len(s)
            /\ \A k \in (i + 2)..(i + 5) : HexValue(s[k]) >= 0
    THEN readString(s, i + 6, Append(acc, unicodeEscape(s, i + 2)))
    ELSE NotRead

RECURSIVE skipDigits(_, _)
skipDigits(s, i) ==
    IF i <= Len(s) /\ IsDigit(s[i]) THEN skipDigits(s, i + 1) ELSE i

\* a number token from position i on: -? int frac? exp?
readNumber(s, i) ==
    LET int == IF s[i] = "-" THEN i + 1 ELSE i
        intEnd == IF int <= Len(s) /\ s[int] = "0" THEN int + 1
                  ELSE skipDigits(s, int)
        hasFrac == intEnd <= Len(s) /\ s[intEnd] = "."
        fracEnd == IF hasFrac THEN skipDigits(s, intEnd + 1) ELSE intEnd
        hasExp == fracEnd <= Len(s) /\ s[fracEnd] \in {"e", "E"}
        expFrom == IF /\ hasExp
                      /\ fracEnd + 1 <= Len(s)
                      /\ s[fracEnd + 1] \in {"+", "-"}
                   THEN fracEnd + 2 ELSE fracEnd + 1
        expEnd == IF hasExp THEN skipDigits(s, expFrom) ELSE fracEnd
    IN  IF \/ intEnd = int
           \/ hasFrac /\ fracEnd = intEnd + 1
           \/ hasExp /\ expEnd = expFrom
        THEN NotRead
        ELSE Read([t |-> "number", text |-> SubSeq(s, i, expEnd - 1),
                   integer |-> ~hasFrac /\ ~hasExp], expEnd)

\* the word w stands at position i
StandsAt(s, i, w) == i + Len(w) - 1 <= Len(s) /\ SubSeq(s, i, i + Len(w) - 1) = w

\* a member of an object as read: the text of a string, a number, null, true
\* and false is kept
memberRead(k, v) ==
    [k |-> k, t |-> v.t,
     text |-> IF v.t \in {"string", "number", "null", "boolean"} THEN v.text
              ELSE <<>>,
     integer |-> v.t = "number" /\ v.integer]

RECURSIVE readValue(_, _), readItems(_, _, _), readMembers(_, _, _)
\* a JSON value from position i on, white space before it skipped
readValue(s, i) ==
    LET j == skipSpace(s, i)
        k == skipSpace(s, j + 1)
    IN  IF j > Len(s) THEN NotRead
        ELSE IF s[j] = "[" THEN
                IF k <= Len(s) /\ s[k] = "]"
                THEN Read([t |-> "array", items |-> <<>>], k + 1)
                ELSE readItems(s, k, <<>>)
        ELSE IF s[j] = "{" THEN
                IF k <= Len(s) /\ s[k] = "}"
                THEN Read([t |-> "object", members |-> <<>>], k + 1)
                ELSE readMembers(s, k, <<>>)
        ELSE IF s[j] = "\"" THEN readString(s, j + 1, <<>>)
        ELSE IF s[j] = "-" \/ IsDigit(s[j]) THEN readNumber(s, j)
        ELSE IF StandsAt(s, j, NullWord)
        THEN Read([t |-> "null", text |-> NullWord], j + 4)
        ELSE IF StandsAt(s, j, TrueWord)
        THEN Read([t |-> "boolean", text |-> TrueWord], j + 4)
        ELSE IF StandsAt(s, j, FalseWord)
        THEN Read([t |-> "boolean", text |-> FalseWord], j + 5)
        ELSE NotRead

\* the elements of an array from position i on, up to its closing bracket
readItems(s, i, acc) ==
    LET item == readValue(s, i)
        j == skipSpace(s, item.next)
    IN  IF ~item.ok \/ j > Len(s) THEN NotRead
        ELSE IF s[j] = "," THEN readItems(s, j + 1, Append(acc, item.v))
        ELSE IF s[j] = "]"
        THEN Read([t |-> "array", items |-> Append(acc, item.v)], j + 1)
        ELSE NotRead

\* the members of an object from position i on, up to its closing brace
readMembers(s, i, acc) ==
    LET q == skipSpace(s, i)
        key == IF q <= Len(s) /\ s[q] = "\"" THEN readString(s, q + 1, <<>>)
               ELSE NotRead
        colon == skipSpace(s, key.next)
        value == IF key.ok /\ colon <= Len(s) /\ s[colon] = ":"
                 THEN readValue(s, colon + 1)
                 ELSE NotRead
        j == skipSpace(s, value.next)
        all == Append(acc, memberRead(key.v.text, value.v))
    IN  IF ~value.ok \/ j > Len(s) THEN NotRead
        ELSE IF s[j] = "," THEN readMembers(s, j + 1, all)
        ELSE IF s[j] = "}"
        THEN Read([t |-> "object", members |-> all], j + 1)
        ELSE NotRead

\* the value read is followed by nothing but white space
wholeText(s, value) ==
    IF value.ok /\ skipSpace(s, value.next) > Len(s) THEN value ELSE NotRead

\* the text is one JSON value with nothing but white space around it
readJson(s) == wholeText(s, readValue(s, 1))

HasMember(members, k) == \E i \in 1..Len(members) : members[i].k = k

\* the property k: the last member of that name
MemberOf(members, k) ==
    members[CHOOSE i \in 1..Len(members) :
                /\ members[i].k = k
                /\ \A j \in (i + 1)..Len(members) : members[j].k # k]

\* the digits of a number token of digits, its sign left out
digitsOfToken(text) == IF Head(text) = "-" THEN Tail(text) ELSE text

\* a value the model holds a property by: a string, null, true, false, or an
\* integer of at most maxDigits digits
IsPlain(m, maxDigits) ==
    \/ m.t \in {"string", "null", "boolean"}
    \/ m.t = "number" /\ m.integer /\ Len(digitsOfToken(m.text)) <= maxDigits

\* a name is an array index: the decimal form of an integer of 0..2^32 - 2
IsArrayIndex(k) ==
    /\ IsDigits(k)
    /\ Len(k) = 1 \/ Head(k) # "0"
    /\ \/ Len(k) < Len(GreatestUnsignedLong)
       \/ Len(k) = Len(GreatestUnsignedLong) /\ StrLess(k, GreatestUnsignedLong)

\* array indices in the order of their numbers
IndexLess(a, b) == Len(a) < Len(b) \/ (Len(a) = Len(b) /\ StrLess(a, b))

RECURSIVE firstKeys(_, _)
\* the names of the members, each at the place of its first member
firstKeys(members, acc) ==
    IF members = <<>> THEN acc
    ELSE firstKeys(Tail(members),
                   IF \E i \in 1..Len(acc) : acc[i] = Head(members).k THEN acc
                   ELSE Append(acc, Head(members).k))

RECURSIVE indexSorted(_)
\* array indices in ascending order
indexSorted(ks) ==
    IF ks = <<>> THEN <<>>
    ELSE LET least == CHOOSE i \in 1..Len(ks) :
                          \A j \in 1..Len(ks) : ~IndexLess(ks[j], ks[i])
         IN  <<ks[least]>>
             \o indexSorted(SubSeq(ks, 1, least - 1)
                            \o SubSeq(ks, least + 1, Len(ks)))

\* the own properties of the object JSON.parse builds, in their order: array
\* indices ascending, then the other names in the order they were created in
ownKeys(members) ==
    LET ks == firstKeys(members, <<>>)
    IN  indexSorted(SelectSeq(ks, IsArrayIndex))
        \o SelectSeq(ks, LAMBDA k : ~IsArrayIndex(k))

ServiceKeys == {NameKey, IterationsKey, PatternKey}

\* an element of the array is a Service as the model holds one: an object
\* whose name is a string, whose iterations, if any, is a string, null, true,
\* false or an integer of at most nine digits, whose pattern, if any, is a
\* string, and whose other properties are strings, null, true, false or
\* integers of at most 15 digits
IsService(v) ==
    /\ v.t = "object"
    /\ HasMember(v.members, NameKey)
    /\ MemberOf(v.members, NameKey).t = "string"
    /\ HasMember(v.members, IterationsKey) =>
          IsPlain(MemberOf(v.members, IterationsKey), 9)
    /\ HasMember(v.members, PatternKey) =>
          MemberOf(v.members, PatternKey).t = "string"
    /\ \A i \in 1..Len(v.members) :
          v.members[i].k \notin ServiceKeys =>
             IsPlain(MemberOf(v.members, v.members[i].k), 15)

\* a property of another name as the Service holds it: JSON.stringify writes
\* the number -0 as 0
extraOf(m) ==
    member(m.k, IF m.t \in {"null", "boolean"} THEN "literal" ELSE m.t,
           IF m.t = "number" /\ m.text = <<"-", "0">> THEN <<"0">> ELSE m.text)

\* the value of service.iterations a member gives
iterationsOf(m) ==
    CASE m.t = "number" -> Num(numberOf(m.text))
      [] m.t = "string" -> Str(m.text)
      [] OTHER -> Literal(m.text)

\* the Service JSON.parse builds from the members of an object
serviceOf(members) ==
    LET keys == ownKeys(members)
        others == SelectSeq(keys, LAMBDA k : k \notin ServiceKeys)
    IN  [name |-> MemberOf(members, NameKey).text,
         iterations |->
            IF ~HasMember(members, IterationsKey) THEN NoIter
            ELSE iterationsOf(MemberOf(members, IterationsKey)),
         pattern |->
            IF ~HasMember(members, PatternKey) THEN Absent
            ELSE patternOf(MemberOf(members, PatternKey).text),
         spelled |->
            IF ~HasMember(members, PatternKey) THEN <<>>
            ELSE MemberOf(members, PatternKey).text,
         keys |-> keys,
         extras |-> [i \in 1..Len(others) |->
                        extraOf(MemberOf(members, others[i]))]]

\* what Config.services becomes for a value read: kind is the kind of the
\* value, items its records when it is an array of Services.  An array with
\* another element has the kind "mixed", head being the kind of its first
\* element; the empty string has a kind of its own
parsedValue(value) ==
    IF ~value.ok
    THEN [error |-> "SyntaxError", kind |-> "undefined", items |-> <<>>,
          head |-> "none"]
    ELSE IF value.v.t = "string"
    THEN [error |-> "none",
          kind |-> IF value.v.text = <<>> THEN "emptyString" ELSE "string",
          items |-> <<>>, head |-> "none"]
    ELSE IF value.v.t # "array"
    THEN [error |-> "none", kind |-> value.v.t, items |-> <<>>,
          head |-> "none"]
    ELSE IF \A i \in 1..Len(value.v.items) : IsService(value.v.items[i])
    THEN [error |-> "none", kind |-> "array",
          items |-> [i \in 1..Len(value.v.items) |->
                        serviceOf(value.v.items[i].members)],
          head |-> "none"]
    ELSE [error |-> "none", kind |-> "mixed", items |-> <<>>,
          head |-> value.v.items[1].t]

\* JSON.parse(decodedConfig), line 133: SyntaxError for a text that is no
\* JSON
parse(text) == parsedValue(readJson(text))

\* decryptConfig from line 134 to the first await of deriveServiceKeys (line
\* 160) on the value Config.services has become: the length of null cannot
\* be read, an object, a number and a boolean cannot be iterated, and line
\* 158 cannot set iterations on a character of a string or on an element
\* that is no object
errorAfterParse(parsed) ==
    CASE parsed.kind \in {"array", "emptyString"} -> "none"
      [] parsed.kind = "mixed" ->
            IF parsed.head \in {"object", "array"} THEN "none" ELSE "TypeError"
      [] OTHER -> "TypeError"


-----------------------------------------------------------------------------
(* decryptConfig (lines 123-141) as a function of Config.servicesEncrypted *)
(* and Config.configKeyAES, up to the first await of deriveServiceKeys.    *)

\* deriveServiceKeys, lines 153-159, on the first service of the array: its
\* iterations are normalised before the first await (line 160)
firstTurn(items) ==
    IF items = <<>> THEN items
    ELSE [items EXCEPT ![1] =
             IF normalizeIterations(@.iterations) = @.iterations THEN @
             ELSE withIterations(@, normalizeIterations(@.iterations))]

\* decryptConfig from line 133 on, for the value JSON.parse gave
afterParse(ignored, parsed) ==
    IF parsed.error # "none"
    THEN [error |-> parsed.error, kind |-> "undefined", items |-> <<>>,
          installed |-> FALSE, ignored |-> ignored, read |-> <<>>]
    ELSE [error |-> errorAfterParse(parsed),
          kind |-> parsed.kind, items |-> firstTurn(parsed.items),
          installed |-> TRUE, ignored |-> ignored, read |-> parsed.items]

\* decryptConfig from line 132 on, for what crypto.subtle.decrypt gave
afterDecrypt(ignored, decrypted) ==
    IF decrypted.error # "none"
    THEN [error |-> decrypted.error, kind |-> "undefined", items |-> <<>>,
          installed |-> FALSE, ignored |-> ignored, read |-> <<>>]
    ELSE afterParse(ignored, parse(decodeToText(decrypted.plain)))

\* decryptConfig on Config.servicesEncrypted = text and Config.configKeyAES =
\* key: installed says that line 133 assigned Config.services, read holds
\* the services as JSON.parse returned them and items as they are at the
\* first await of deriveServiceKeys, error is what the catch branch reports
\* ("none": deriveServiceKeys is awaited), ignored counts the writes behind
\* the end of a byte array
decryptConfig(text, key) ==
    afterDecrypt(splitEncrypted(text).ignored,
                 decrypt(key, splitEncrypted(text).iv, splitEncrypted(text).data))

-----------------------------------------------------------------------------
(* The configuration file data/config.txt: the files the fetch of the      *)
(* session may answer with are encryptions of the payloads under the       *)
(* config key of the empty main key.                                       *)

\* the config key the files were encrypted with, and another one
FileKey == deriveKey(importKey(<<>>), ConfigSalt, ConfigIterations)
OtherKey == deriveKey(importKey(<<"p">>), ConfigSalt, ConfigIterations)

NameAB == <<"a", ".", "b">>
NameBA == <<"b", ".", "a">>

PayloadList == <<"sorted", "unsorted", "duplicate", "unknownPattern",
                 "zeroIterations", "textIterations", "prefixIterations",
                 "configName", "empty", "null", "object", "number",
                 "invalid">>

Payloads == {PayloadList[i] : i \in 1..Len(PayloadList)}

AllKeys == <<NameKey, IterationsKey, PatternKey>>

Services(items) == [t |-> "array", items |-> items]

\* the value a payload is the JSON text of
stored(p) ==
    CASE p = "sorted" ->
            Services(<< Service(NameAB, Num(1), "c16", AllKeys),
                        Service(NameBA, Num(2), "n4", AllKeys) >>)
      [] p = "unsorted" ->
            Services(<< Service(NameBA, Str(<<"0", "3">>), "c8",
                                <<PatternKey, IterationsKey, NameKey>>),
                        Service(NameAB, NoIter, Absent, <<NameKey>>) >>)
      [] p = "duplicate" ->
            Services(<< Service(NameAB, Num(1), "c16", AllKeys),
                        Service(NameAB, Num(2), "c16", AllKeys) >>)
      [] p = "unknownPattern" ->
            Services(<< Service(NameAB, Num(1), "zz", AllKeys) >>)
      [] p = "zeroIterations" ->
            Services(<< Service(NameAB, Num(0), "c16", AllKeys) >>)
      [] p = "textIterations" ->
            Services(<< [Service(NameBA, Str(<<"x">>), "n4",
                                 <<NameKey, <<"u", "r", "l">>, IterationsKey,
                                   PatternKey>>)
                         EXCEPT !.extras =
                                   <<member(<<"u", "r", "l">>, "literal",
                                            NullWord)>>] >>)
      [] p = "prefixIterations" ->
            Services(<< Service(NameAB, Str(<<"3", "x">>), Absent,
                                <<NameKey, IterationsKey>>) >>)
      [] p = "configName" ->
            Services(<< Service(<<"c", "o", "n", "f", "i", "g">>, Num(0),
                                "c16", AllKeys) >>)
      [] p = "empty" -> Services(<<>>)
      [] p = "null" -> [t |-> "null", items |-> <<>>]
      [] p = "object" -> [t |-> "object", items |-> <<>>]
      [] OTHER -> [t |-> "number", items |-> <<>>]

\* the plaintext of a payload; the one that is no JSON is one letter
plainOf(p) == IF p = "invalid" THEN <<"x">> ELSE stringify(stored(p))

\* an init vector crypto.getRandomValues may draw at line 307
InitVectorOf(seed) == [i \in 1..BlockLength |-> (seed + 11 * i) % 256]

\* the encryption of a payload with the init vector of a seed
madeOf(p, seed) ==
    encrypt(FileKey, InitVectorOf(seed), encodeFromText(plainOf(p)))

\* the file encryptConfig downloads for an encryption
fileOf(made) ==
    downloadFile(decodeToHexString(made.iv) \o decodeToHexString(made.data))

\* AES-CBC has no integrity check: under a key other than the one of the
\* file the blocks decrypt to noise, which crypto.subtle.decrypt refuses
\* only when it does not end in a valid padding.  With the init vector of
\* this seed the payload "sorted" decrypts to such noise under OtherKey
PassingSeeds == {223}

\* the files of the payloads, in the order of PayloadList
PayloadFiles ==
    SubSeq([i \in 1..Len(PayloadList) |-> fileOf(madeOf(PayloadList[i], 0))],
           1, Len(PayloadList))

\* the texts the fetch of the session may answer with
Files ==
    {PayloadFiles[i] : i \in 1..Len(PayloadList)}
    \cup {fileOf(madeOf("sorted", seed)) : seed \in PassingSeeds}

\* Config.servicesEncrypted for the file of a payload
fileText(p) ==
    loadResponseText(PayloadFiles[CHOOSE i \in 1..Len(PayloadList) :
                                      PayloadList[i] = p])

\* the files the fetch of SpecLoad may answer with are encryptions of these
\* payloads, as downloaded or damaged
LoadPayloads == <<"sorted", "empty", "null", "object", "invalid">>

\* the seeds of the init vectors of the files: two with which a file of
\* LoadPayloads, decrypted under OtherKey, ends in a valid padding (19:
\* invalid, 223: sorted), and the seed 0
LoadVectorSeeds == <<0, 19, 223>>

\* the files as encryptConfig downloads them
MadeFiles ==
    SubSeq([n \in 1..(Len(LoadPayloads) * Len(LoadVectorSeeds)) |->
               fileOf(madeOf(LoadPayloads[((n - 1) \div Len(LoadVectorSeeds)) + 1],
                             LoadVectorSeeds[((n - 1) % Len(LoadVectorSeeds)) + 1]))],
           1, Len(LoadPayloads) * Len(LoadVectorSeeds))

ReplaceAt(s, i, c) == [k \in 1..Len(s) |-> IF k = i THEN c ELSE s[k]]

Damages == <<"none", "crlf", "short", "empty", "oddAppend", "oddCut",
             "letterInVector", "letterInData", "blankInVector", "blankInData">>

\* a text the fetch may answer with: the file as downloaded, the file with
\* the line ends of another system, or a damaged file
damaged(d, file) ==
    CASE d = "crlf" ->
            LET end == CHOOSE i \in 1..Len(file) :
                          file[i] = LineFeed
                          /\ \A j \in 1..(i - 1) : file[j] # LineFeed
            IN  SubSeq(file, 1, end - 1) \o <<CarriageReturn>>
                \o SubSeq(file, end, Len(file))
      [] d = "short" -> SubSeq(file, 1, 10)
      [] d = "empty" -> <<>>
      [] d = "oddAppend" -> file \o <<"a">>
      [] d = "oddCut" -> SubSeq(file, 1, Len(file) - 2)
      [] d = "letterInVector" -> ReplaceAt(file, 4, "z")
      [] d = "letterInData" -> ReplaceAt(file, initVectorLength + 1, "z")
      [] d = "blankInVector" -> ReplaceAt(file, 5, " ")
      [] d = "blankInData" -> ReplaceAt(file, initVectorLength + 1, " ")
      [] OTHER -> file

\* the texts the fetch of SpecLoad may answer with, one after the other
LoadResponses ==
    SubSeq([n \in 1..(Len(MadeFiles) * Len(Damages)) |->
               damaged(Damages[((n - 1) % Len(Damages)) + 1],
                       MadeFiles[((n - 1) \div Len(Damages)) + 1])],
           1, Len(MadeFiles) * Len(Damages))

LoadTexts == {LoadResponses[n] : n \in 1..Len(LoadResponses)}

\* the texts Config.servicesEncrypted may hold (line 31)
FileTexts ==
    LET passing == fileOf(madeOf("sorted", CHOOSE seed \in PassingSeeds : TRUE))
        files == Append(PayloadFiles, passing) \o LoadResponses
    IN  SubSeq([i \in 1..Len(files) |-> loadResponseText(files[i])],
               1, Len(files))

\* the first place of FileTexts that holds the text
placeOf(text) ==
    CHOOSE i \in 1..Len(FileTexts) :
        FileTexts[i] = text /\ \A j \in 1..(i - 1) : FileTexts[j] # text

FileKeys == <<FileKey, OtherKey>>

\* decryptConfig on each text of FileTexts under each key of FileKeys, at
\* the first place of the text
decryptedFiles ==
    SubSeq([n \in 1..(Len(FileKeys) * Len(FileTexts)) |->
               LET i == ((n - 1) \div Len(FileKeys)) + 1
                   k == ((n - 1) % Len(FileKeys)) + 1
               IN  IF placeOf(FileTexts[i]) = i
                   THEN decryptConfig(FileTexts[i], FileKeys[k])
                   ELSE <<>>],
           1, Len(FileKeys) * Len(FileTexts))

\* decryptConfig, read from decryptedFiles where it holds the result
decryptConfigOn(text, key) ==
    IF \E i \in 1..Len(FileTexts), k \in 1..Len(FileKeys) :
          FileTexts[i] = text /\ FileKeys[k] = key
    THEN LET k == CHOOSE k \in 1..Len(FileKeys) : FileKeys[k] = key
         IN  decryptedFiles[Len(FileKeys) * (placeOf(text) - 1) + k]
    ELSE decryptConfig(text, key)

\* the services the file of Config.servicesEncrypted = text holds
storedIn(text) == decryptConfigOn(text, FileKey).read

NoBlob == [t |-> "undefined", text |-> <<>>]

-----------------------------------------------------------------------------
(* Session state.                                                          *)

NoArray == [t |-> "undefined", a |-> <<>>]

\* Config.services as the records it holds
RegistryOf(h, svcs) ==
    [t |-> svcs.t, items |-> [i \in 1..Len(svcs.a) |-> h[svcs.a[i]]]]

Registry == RegistryOf(recs, services)

NoRegistry == [t |-> "undefined", items |-> <<>>]

\* the for-of loop of deriveServiceKeys: arr is the array it iterates, live
\* says that arr still is the array Config.services, idx the position of the
\* service being rendered, inTry that decryptConfig awaits the run
NoRun == [arr |-> <<>>, live |-> FALSE, idx |-> 0, loaded |-> 0, inTry |-> FALSE]

NoPassword == [secret |-> <<>>, name |-> <<>>, count |-> 0, pattern |-> ""]

\* the values a getKey call read: Config.userSecret, service.name and
\* service.iterations at line 174, service.pattern at line 177
NoCall == [secret |-> <<>>, name |-> <<>>, iterations |-> NoIter,
           pattern |-> Absent]

NoTask == [kind |-> "none", text |-> <<>>, key |-> NoKey, then |-> "none",
           blob |-> NoBlob, svc |-> 0, cont |-> "none", run |-> NoRun,
           eid |-> 0, before |-> NoRegistry, iterations |-> NoIter,
           iv |-> <<>>, call |-> NoCall]

\* what encryptConfig hands to the download: the text of the file and the
\* encryption it comes from
NoFile == [t |-> "none", text |-> <<>>, made |-> NoMade]

NoLast == [op |-> "init", error |-> "none", name |-> <<>>, ret |-> 0,
           before |-> NoRegistry, pw |-> NoPassword, call |-> NoCall,
           file |-> NoFile, pending |-> <<>>, shown |-> <<>>]

InitialLabel == [t |-> "initial", loaded |-> 0, total |-> 0]

\* the class #decrypt-config has in index.html: the one line 134 replaces
InitialButtonClass == "btn-danger"

\* classList.replace(old, new): nothing happens when old is not in the list
replaceClass(class, old, new) == IF class = old THEN new ELSE class

SynIdle == [error |-> "idle", password |-> <<>>]

SessionInit ==
    /\ field = <<>>
    /\ servicesEncrypted = NoBlob
    /\ loader = "fetch"
    /\ userSecret = NoKey
    /\ configKeyAES = NoKey
    /\ recs = <<>>
    /\ services = NoArray
    /\ tasks = <<>>
    /\ list = <<>>
    /\ label = InitialLabel
    /\ buttonClass = InitialButtonClass
    /\ nextEid = 1
    /\ events = 0
    /\ last = NoLast

\* the variables of SpecSynth while they are not used
SynUnused ==
    /\ synPattern = Absent
    /\ synKey = <<>>
    /\ synOut = SynIdle

CodecIdle == [hex |-> <<>>, bytes |-> <<>>, ignored |-> 0, done |-> FALSE]

NoCodecInput == [t |-> "none", bytes |-> <<>>, hex |-> <<>>]

CodecUnused ==
    /\ codecIn = NoCodecInput
    /\ codecOut = CodecIdle

Init ==
    /\ SessionInit
    /\ SynUnused
    /\ CodecUnused

RemoveAt(s, i) == SubSeq(s, 1, i - 1) \o SubSeq(s, i + 1, Len(s))

\* the runs that iterate the array Config.services see it mutated in place
RetargetRuns(ts, a) ==
    [i \in 1..Len(ts) |->
        IF ts[i].run.live THEN [ts[i] EXCEPT !.run.arr = a] ELSE ts[i]]

\* Config.services is assigned another array: the runs keep the old one
DetachRuns(ts) ==
    [i \in 1..Len(ts) |-> [ts[i] EXCEPT !.run.live = FALSE]]

\* getKey up to its first await (line 174): deriveKey is called with the
\* values Config.userSecret, service.name and service.iterations have now;
\* call keeps what was read
getKeyCall(h, id, cont, run, eid, before) ==
    [NoTask EXCEPT !.kind = "getKey",
                   !.key = deriveKey(userSecret, h[id].name,
                                     iterationCount(h[id].iterations)),
                   !.svc = id, !.cont = cont, !.run = run, !.eid = eid,
                   !.before = before, !.iterations = h[id].iterations,
                   !.call = [NoCall EXCEPT !.secret = userSecret.secret,
                                           !.name = h[id].name,
                                           !.iterations = h[id].iterations]]

\* crypto.subtle.deriveKey returns a promise that is rejected already when
\* its key is no CryptoKey or the count is no unsigned long: the await of
\* line 174 throws in the turn of the call, and so does every await up to the
\* handler or to the catch of decryptConfig
rejectedAtCall(task) == task.key.t = "rejected"

\* the pending calls after getKey was called
withCall(ts, task) == IF rejectedAtCall(task) THEN ts ELSE Append(ts, task)

errorAtCall(task) == IF rejectedAtCall(task) THEN "TypeError" ELSE "none"

\* one turn of the for-of loop of deriveServiceKeys (lines 153-160) over the
\* heap h: more says whether a service is left at run.idx
loopTurn(h, run, before) ==
    IF run.idx <= Len(run.arr)
    THEN LET id == run.arr[run.idx]
             h2 == [h EXCEPT ![id] =
                       IF normalizeIterations(@.iterations) = @.iterations THEN @
                       ELSE withIterations(@, normalizeIterations(@.iterations))]
         IN  [more |-> TRUE, recs |-> h2,
              task |-> getKeyCall(h2, id, "run", run, 0, before)]
    ELSE [more |-> FALSE, recs |-> h, task |-> NoTask]

FinalLabel(n) == [t |-> "final", loaded |-> n, total |-> 0]

-----------------------------------------------------------------------------
(* The page load handler (lines 19-33), suspended at the await of line 29   *)
(* when the page is ready.                                                 *)

\* the promise of fetch resolves with the response: line 30 calls
\* response.text() and awaits
FetchResponse ==
    /\ loader = "fetch"
    /\ loader' = "text"
    /\ last' = [NoLast EXCEPT !.op = "response"]
    /\ UNCHANGED <<field, servicesEncrypted, userSecret, configKeyAES, recs,
                   services, tasks, list, label, buttonClass, nextEid, events>>
    /\ UNCHANGED <<synVars, codecVars>>

\* the promise of response.text() resolves with the text of the file: line 31
\* assigns Config.servicesEncrypted
FetchDone(responseText) ==
    /\ loader = "text"
    /\ loader' = "done"
    /\ servicesEncrypted' = [t |-> "text", text |-> loadResponseText(responseText)]
    /\ last' = [NoLast EXCEPT !.op = "fetch"]
    /\ UNCHANGED <<field, userSecret, configKeyAES, recs, services, tasks,
                   list, label, buttonClass, nextEid, events>>
    /\ UNCHANGED <<synVars, codecVars>>

-----------------------------------------------------------------------------
(* importMainKey and its callers (lines 47-60, 106-117).                   *)

Enter == "Enter"
TypedChars == {"p"}

\* importMainKey up to its first await: the text of the field is read now
importMainKeyCall(then) ==
    [NoTask EXCEPT !.kind = "importKey", !.text = Trim(field), !.then = then]

\* keypress on #m41nk3y: checkChangedInput runs before the browser inserts
\* the character into the field
KeyPress(c) ==
    /\ events < MaxEvents
    /\ Len(tasks) < MaxTasks
    /\ c # Enter => Len(field) < MaxFieldLen
    /\ tasks' = Append(tasks, importMainKeyCall(IF c = Enter THEN "decrypt" ELSE "none"))
    /\ field' = IF c = Enter THEN field ELSE Append(field, c)
    /\ events' = events + 1
    /\ last' = [NoLast EXCEPT !.op = "keypress"]
    /\ UNCHANGED <<servicesEncrypted, userSecret, configKeyAES, recs, services,
                   list, label, buttonClass, nextEid>>
    /\ UNCHANGED <<loader, synVars, codecVars>>

PastedTexts == {<<"p">>}

\* paste on #m41nk3y: the same checkChangedInput, whose event has no key; it
\* runs before the browser inserts the pasted text into the field
Paste(text) ==
    /\ events < MaxEvents
    /\ Len(tasks) < MaxTasks
    /\ Len(field) + Len(text) <= MaxFieldLen
    /\ tasks' = Append(tasks, importMainKeyCall("none"))
    /\ field' = field \o text
    /\ events' = events + 1
    /\ last' = [NoLast EXCEPT !.op = "paste"]
    /\ UNCHANGED <<servicesEncrypted, userSecret, configKeyAES, recs, services,
                   list, label, buttonClass, nextEid>>
    /\ UNCHANGED <<loader, synVars, codecVars>>

\* click on #decrypt-config: importMainKey().then(decryptConfig)
ClickDecrypt ==
    /\ events < MaxEvents
    /\ Len(tasks) < MaxTasks
    /\ tasks' = Append(tasks, importMainKeyCall("decrypt"))
    /\ events' = events + 1
    /\ last' = [NoLast EXCEPT !.op = "clickDecrypt"]
    /\ UNCHANGED <<field, servicesEncrypted, userSecret, configKeyAES, recs,
                   services, list, label, buttonClass, nextEid>>
    /\ UNCHANGED <<loader, synVars, codecVars>>

\* importKey resolves: line 108 assigns Config.userSecret, line 116 calls
\* deriveKey with it and awaits
CompleteImportKey(i) ==
    /\ tasks[i].kind = "importKey"
    /\ userSecret' = importKey(tasks[i].text)
    /\ tasks' = [tasks EXCEPT ![i] =
                    [@ EXCEPT !.kind = "deriveConfigKey",
                              !.key = deriveKey(userSecret', ConfigSalt,
                                                ConfigIterations)]]
    /\ last' = [NoLast EXCEPT !.op = "importKey"]
    /\ UNCHANGED <<field, servicesEncrypted, configKeyAES, recs, services,
                   list, label, buttonClass, nextEid, events>>
    /\ UNCHANGED <<loader, synVars, codecVars>>

\* decryptConfig up to its await (lines 123-131); the registry it starts on
\* is kept for observation
decryptConfigCall(key) ==
    [NoTask EXCEPT !.kind = "decrypt", !.key = key, !.blob = servicesEncrypted,
                   !.before = Registry]

\* deriveKey of the config key resolves: line 116 assigns Config.configKeyAES;
\* after Enter or the decrypt button decryptConfig starts in the same turn
CompleteDeriveConfigKey(i) ==
    /\ tasks[i].kind = "deriveConfigKey"
    /\ configKeyAES' = tasks[i].key
    /\ IF tasks[i].then = "decrypt"
       THEN IF servicesEncrypted.t = "undefined"
            THEN /\ tasks' = RemoveAt(tasks, i)
                 /\ last' = [NoLast EXCEPT !.op = "decryptConfig",
                                           !.error = "TypeError"]
            ELSE /\ tasks' = [tasks EXCEPT ![i] = decryptConfigCall(configKeyAES')]
                 /\ last' = [NoLast EXCEPT !.op = "decryptConfig"]
       ELSE /\ tasks' = RemoveAt(tasks, i)
            /\ last' = [NoLast EXCEPT !.op = "importMainKey"]
    /\ UNCHANGED <<field, servicesEncrypted, userSecret, recs, services, list,
                   label, buttonClass, nextEid, events>>
    /\ UNCHANGED <<loader, synVars, codecVars>>

-----------------------------------------------------------------------------
(* decryptConfig after its await (lines 132-141) and deriveServiceKeys.    *)

\* the catch branch of decryptConfig: "Wrong main key"
WrongMainKey(error, before) ==
    [NoLast EXCEPT !.op = "decryptFailed", !.error = error, !.before = before]

\* decryptConfig from line 132 on, out being what decryptConfig gives on the
\* text and the key the decryption was called with
resumeDecryptConfig(i, out) ==
    /\ tasks[i].kind = "decrypt"
    /\ LET t == tasks[i]
           \* line 134 and line 140
           success == replaceClass(buttonClass, "btn-danger", "btn-success")
           failure == replaceClass(buttonClass, "btn-success", "btn-danger")
       IN  IF ~out.installed
           THEN \* crypto.subtle.decrypt rejects or JSON.parse throws
                /\ tasks' = RemoveAt(tasks, i)
                /\ last' = WrongMainKey(out.error, t.before)
                /\ buttonClass' = failure
                /\ UNCHANGED <<recs, services, list, label>>
           ELSE LET ids == [k \in 1..Len(out.items) |-> Len(recs) + k]
                    h1 == recs \o out.items
                    run == [arr |-> ids, live |-> TRUE, idx |-> 1,
                            loaded |-> 0, inTry |-> TRUE]
                    turn == loopTurn(h1, run, t.before)
                IN  \* an array whose first element is an object that is no
                    \* Service is not followed
                    /\ out.kind = "mixed" => out.error # "none"
                    \* line 133 assigns Config.services
                    /\ services' = [t |-> out.kind, a |-> ids]
                    /\ recs' = turn.recs
                    /\ IF out.kind = "null"
                       THEN \* Config.services.length throws at line 135
                            /\ tasks' = DetachRuns(RemoveAt(tasks, i))
                            /\ last' = WrongMainKey("TypeError", t.before)
                            /\ buttonClass' =
                                  replaceClass(success, "btn-success", "btn-danger")
                            /\ UNCHANGED <<list, label>>
                       ELSE IF out.error # "none"
                       THEN \* line 148 clears the list, then Config.services
                            \* is not iterable at line 153 or line 158 cannot
                            \* set iterations
                            /\ list' = <<>>
                            /\ tasks' = DetachRuns(RemoveAt(tasks, i))
                            /\ last' = WrongMainKey(out.error, t.before)
                            /\ buttonClass' =
                                  replaceClass(success, "btn-success", "btn-danger")
                            /\ UNCHANGED label
                       ELSE IF turn.more /\ rejectedAtCall(turn.task)
                       THEN \* line 148 clears the list, then the first getKey
                            \* is rejected at its call: the catch of lines
                            \* 138-140 runs in this turn
                            /\ list' = <<>>
                            /\ tasks' = DetachRuns(RemoveAt(tasks, i))
                            /\ last' = WrongMainKey(errorAtCall(turn.task), t.before)
                            /\ buttonClass' =
                                  replaceClass(success, "btn-success", "btn-danger")
                            /\ UNCHANGED label
                       ELSE \* deriveServiceKeys starts: line 148 clears the list
                            /\ list' = <<>>
                            /\ buttonClass' = success
                            /\ IF turn.more
                               THEN /\ tasks' = [DetachRuns(tasks) EXCEPT ![i] = turn.task]
                                    /\ last' = [NoLast EXCEPT !.op = "decryptParsed"]
                                    /\ UNCHANGED label
                               ELSE /\ tasks' = DetachRuns(RemoveAt(tasks, i))
                                    /\ last' = [NoLast EXCEPT !.op = "decryptDone"]
                                    /\ label' = FinalLabel(0)
    /\ UNCHANGED <<field, servicesEncrypted, userSecret, configKeyAES, nextEid,
                   events>>
    /\ UNCHANGED <<loader, synVars, codecVars>>

\* the promise of crypto.subtle.decrypt settles
CompleteDecrypt(i) ==
    resumeDecryptConfig(i, decryptConfigOn(tasks[i].blob.text, tasks[i].key))

\* click on #derive-keys: deriveServiceKeys up to its first await
ClickDerive ==
    /\ events < MaxEvents
    /\ events' = events + 1
    /\ list' = <<>>
    /\ IF services.t \notin {"array", "emptyString"}
       THEN \* Config.services is not iterable, or line 158 cannot set
            \* iterations on a character
            /\ last' = [NoLast EXCEPT !.op = "deriveServiceKeys",
                                      !.error = "TypeError",
                                      !.before = Registry]
            /\ UNCHANGED <<recs, tasks, label>>
       ELSE LET run == [arr |-> services.a, live |-> TRUE, idx |-> 1,
                        loaded |-> 0, inTry |-> FALSE]
                turn == loopTurn(recs, run, NoRegistry)
            IN  /\ recs' = turn.recs
                /\ IF turn.more
                   THEN \* a getKey rejected at its call rejects the promise
                        \* of the handler in this turn
                        /\ tasks' = withCall(tasks, turn.task)
                        /\ Len(tasks') <= MaxTasks
                        /\ last' = [NoLast EXCEPT !.op = "deriveServiceKeys",
                                                  !.error = errorAtCall(turn.task),
                                                  !.before = Registry]
                        /\ UNCHANGED label
                   ELSE /\ label' = FinalLabel(0)
                        /\ last' = [NoLast EXCEPT !.op = "deriveServiceKeys",
                                                  !.before = Registry]
                        /\ UNCHANGED tasks
    /\ UNCHANGED <<field, servicesEncrypted, userSecret, configKeyAES, services,
                   buttonClass, nextEid>>
    /\ UNCHANGED <<loader, synVars, codecVars>>

-----------------------------------------------------------------------------
(* getKey after each of its awaits and the code that continues behind it.  *)

\* the key and the pattern a password was made from (observation only)
passwordOf(key, pattern) ==
    [secret |-> key.secret, name |-> key.salt, count |-> key.count,
     pattern |-> pattern]

passwordTextOfCurrentSecret(key, pattern) ==
    synthesize(keyBits([key EXCEPT !.secret = userSecret.secret]),
               pattern).password

\* lines 175-183: the characters getKey returns for the key its deriveKey
\* gave, exported, and the pattern of the service
passwordText(key, pattern) == synthesize(keyBits(key), pattern).password

\* what the getKey call of task t read: the values of line 174, kept at the
\* call, and the pattern record r has at line 177
callOf(t, r) == [t.call EXCEPT !.pattern = r.pattern]

\* passwordElement.innerText (lines 208, 227, 238) with what it was made from
shownPassword(entry, pw, text, call) ==
    [entry EXCEPT !.pw = pw, !.text = text, !.call = call]

\* renderServiceToList, lines 194-261: the element appended to .service-list;
\* iter is the text of .iterations-count (line 231)
entryOf(h, id, eid) ==
    [eid |-> eid, svc |-> id, pw |-> NoPassword, text |-> <<>>,
     call |-> NoCall, iter |-> iterationsText(h[id].iterations)]

\* a rejected promise nobody handles, or the catch branch of decryptConfig
\* when the failing run is the one decryptConfig awaits
Failure(t, op, error, pw, call) ==
    IF t.cont = "run" /\ t.run.inTry
    THEN [WrongMainKey(error, t.before) EXCEPT !.pw = pw, !.call = call]
    ELSE [NoLast EXCEPT !.op = op, !.error = error, !.pw = pw, !.call = call]

\* the promise of deriveKey (line 174) settles later than its call: it is
\* rejected when the count 1000 + service.iterations is 0, which the key
\* derivation finds, else getKey calls exportKey (line 175) and awaits again
CompleteDeriveServiceKey(i) ==
    /\ tasks[i].kind = "getKey"
    /\ ~rejectedAtCall(tasks[i])
    /\ LET t == tasks[i]
       IN  IF t.key.t = "AES"
           THEN /\ tasks' = [tasks EXCEPT ![i].kind = "exportKey"]
                /\ last' = [NoLast EXCEPT !.op = "deriveKey"]
                /\ UNCHANGED buttonClass
           ELSE /\ tasks' = RemoveAt(tasks, i)
                /\ last' = Failure(t, "getKey", deriveKeyError(t.key),
                                    NoPassword, NoCall)
                \* line 140, when decryptConfig awaits this run
                /\ buttonClass' =
                      IF t.cont = "run" /\ t.run.inTry
                      THEN replaceClass(buttonClass, "btn-success", "btn-danger")
                      ELSE buttonClass
    /\ UNCHANGED <<field, servicesEncrypted, userSecret, configKeyAES, recs,
                   services, list, label, nextEid, events>>
    /\ UNCHANGED <<loader, synVars, codecVars>>

\* the promise of exportKey (line 175) resolves: lines 176-183 and the code
\* that awaited getKey
CompleteGetKey(i) ==
    /\ tasks[i].kind = "exportKey"
    /\ LET t == tasks[i]
           pattern == defaultPattern(recs[t.svc].pattern)
           h1 == [recs EXCEPT ![t.svc] =
                     IF @.pattern = Absent THEN withPattern(@, pattern) ELSE @]
           turn == loopTurn(h1, [t.run EXCEPT !.idx = @ + 1], t.before)
           \* the promise of getKey or of deriveServiceKeys is rejected
           rejected == \/ templates(pattern) = <<>>
                       \/ t.cont = "run" /\ services.t # "array"
                       \/ t.cont = "run" /\ turn.more /\ rejectedAtCall(turn.task)
       IN  \* line 140, when decryptConfig awaits this run
           buttonClass' =
              IF rejected /\ t.cont = "run" /\ t.run.inTry
              THEN replaceClass(buttonClass, "btn-success", "btn-danger")
              ELSE buttonClass
    /\ LET t == tasks[i]
           pattern == defaultPattern(recs[t.svc].pattern)
           \* line 177 writes the default pattern to the record
           h1 == [recs EXCEPT ![t.svc] =
                     IF @.pattern = Absent THEN withPattern(@, pattern) ELSE @]
           pw == passwordOf(t.key, pattern)
           text == passwordText(t.key, pattern)
           call == callOf(t, recs[t.svc])
       IN  IF templates(pattern) = <<>>
           THEN \* templateClass is undefined at line 179
                /\ recs' = h1
                /\ tasks' = RemoveAt(tasks, i)
                /\ last' = Failure(t, "getKey", "TypeError", NoPassword, NoCall)
                /\ UNCHANGED <<list, label, nextEid>>
           ELSE IF t.cont = "entry"
           THEN \* lines 227 and 238: passwordElement.innerText = await getKey(service)
                /\ recs' = h1
                /\ tasks' = RemoveAt(tasks, i)
                /\ list' = [k \in 1..Len(list) |->
                               IF list[k].eid = t.eid
                               THEN shownPassword(list[k], pw, text, call)
                               ELSE list[k]]
                /\ last' = [NoLast EXCEPT !.op = "showPassword", !.pw = pw,
                                          !.call = call]
                /\ UNCHANGED <<label, nextEid>>
           ELSE \* renderServiceToList appends the entry
                /\ list' = Append(list, shownPassword(entryOf(h1, t.svc, nextEid),
                                                      pw, text, call))
                /\ nextEid' = nextEid + 1
                /\ IF t.cont = "add"
                   THEN /\ recs' = h1
                        /\ tasks' = RemoveAt(tasks, i)
                        /\ last' = [NoLast EXCEPT !.op = "render", !.pw = pw,
                                                  !.call = call]
                        /\ UNCHANGED label
                   ELSE \* deriveServiceKeys, lines 161-164
                        LET run == [t.run EXCEPT !.idx = @ + 1, !.loaded = @ + 1]
                            turn == loopTurn(h1, run, t.before)
                        IN  IF services.t # "array"
                            THEN \* Config.services.length throws at line 162
                                 /\ recs' = h1
                                 /\ tasks' = RemoveAt(tasks, i)
                                 /\ last' = Failure(t, "deriveServiceKeys", "TypeError", pw,
                                                 call)
                                 /\ UNCHANGED label
                            ELSE /\ recs' = turn.recs
                                 /\ IF turn.more /\ rejectedAtCall(turn.task)
                                    THEN \* line 162, then the next getKey is
                                         \* rejected at its call
                                         /\ tasks' = RemoveAt(tasks, i)
                                         /\ label' = [t |-> "progress",
                                                      loaded |-> run.loaded,
                                                      total |-> Len(services.a)]
                                         /\ last' = Failure(t, "getKey",
                                                            errorAtCall(turn.task),
                                                            pw, call)
                                    ELSE IF turn.more
                                    THEN /\ tasks' = [tasks EXCEPT ![i] = turn.task]
                                         /\ label' = [t |-> "progress",
                                                      loaded |-> run.loaded,
                                                      total |-> Len(services.a)]
                                         /\ last' = [NoLast EXCEPT !.op = "render",
                                                                   !.pw = pw,
                                                                   !.call = call]
                                    ELSE /\ tasks' = RemoveAt(tasks, i)
                                         /\ label' = FinalLabel(run.loaded)
                                         /\ last' = [NoLast EXCEPT
                                               !.op = IF run.inTry THEN "decryptDone"
                                                      ELSE "deriveDone",
                                               !.pw = pw, !.call = call]
    /\ UNCHANGED <<field, servicesEncrypted, userSecret, configKeyAES, services,
                   events>>
    /\ UNCHANGED <<loader, synVars, codecVars>>

-----------------------------------------------------------------------------
(* The add handler (lines 88-98) with Config.addService.                   *)

AddNames == { <<" ", "a", ".", "b">>, <<"A", ".", "b">>, <<"a", "b">> }

ClickAdd(raw) ==
    /\ events < MaxEvents
    /\ events' = events + 1
    /\ LET value == Trim(raw)
           candidate == Trim(value)
           id == Len(recs) + 1
           h1 == Append(recs, newService(candidate))
           a1 == sortServices(h1, Append(services.a, id))
       IN  IF ~MatchesServiceName(value)
           THEN \* "Invalid service name to add."
                /\ last' = [NoLast EXCEPT !.op = "addRejected", !.name = raw,
                                          !.before = Registry,
                                          !.pending = tasks, !.shown = list]
                /\ UNCHANGED <<recs, services, tasks>>
           ELSE IF services.t # "array"
           THEN \* this.services is not iterable
                /\ last' = [NoLast EXCEPT !.op = "addService", !.name = raw,
                                          !.error = "TypeError",
                                          !.before = Registry]
                /\ UNCHANGED <<recs, services, tasks>>
           ELSE IF hasService(recs, services.a, candidate)
           THEN \* addService returns nothing; getKey(undefined) throws at
                \* service.name and the handler's promise is rejected
                /\ last' = [NoLast EXCEPT !.op = "addDuplicate", !.name = raw,
                                          !.error = "TypeError",
                                          !.before = Registry]
                /\ UNCHANGED <<recs, services, tasks>>
           ELSE \* push, sortServices, return newService; getKey is called
                /\ Len(tasks) < MaxTasks
                /\ recs' = h1
                /\ services' = [services EXCEPT !.a = a1]
                /\ tasks' = withCall(RetargetRuns(tasks, a1),
                                     getKeyCall(h1, id, "add", NoRun, 0, NoRegistry))
                /\ last' = [NoLast EXCEPT
                               !.op = "addService", !.name = raw, !.ret = id,
                               !.error = errorAtCall(getKeyCall(h1, id, "add", NoRun,
                                                                0, NoRegistry)),
                               !.before = Registry]
    /\ UNCHANGED <<field, servicesEncrypted, userSecret, configKeyAES, list,
                   label, buttonClass, nextEid>>
    /\ UNCHANGED <<loader, synVars, codecVars>>

-----------------------------------------------------------------------------
(* The listeners of a rendered entry (lines 201-260).                      *)

PatternChoices == {"c16", "n4"}

\* .action-delete: Config.removeService(service.name), then removeChild
ClickDelete(e) ==
    /\ events < MaxEvents
    /\ events' = events + 1
    /\ LET name == recs[list[e].svc].name
       IN  IF services.t # "array"
           THEN /\ last' = [NoLast EXCEPT !.op = "removeService", !.name = name,
                                          !.error = "TypeError",
                                          !.before = Registry]
                /\ UNCHANGED <<services, tasks, list>>
           ELSE /\ services' = [services EXCEPT
                                   !.a = removeService(recs, services.a, name)]
                /\ tasks' = DetachRuns(tasks)
                /\ list' = RemoveAt(list, e)
                /\ last' = [NoLast EXCEPT !.op = "removeService", !.name = name,
                                          !.before = Registry]
    /\ UNCHANGED <<field, servicesEncrypted, userSecret, configKeyAES, recs,
                   label, buttonClass, nextEid>>
    /\ UNCHANGED <<loader, synVars, codecVars>>

\* the getKey call of a listener of entry e (lines 227 and 238)
entryCall(h, e) ==
    getKeyCall(h, list[e].svc, "entry", NoRun, list[e].eid, NoRegistry)

\* change of the pattern selector
ChangePattern(e, p) ==
    /\ events < MaxEvents
    /\ Len(tasks) < MaxTasks
    /\ events' = events + 1
    /\ recs' = [recs EXCEPT ![list[e].svc] = withPattern(@, p)]
    /\ tasks' = withCall(tasks, entryCall(recs', e))
    /\ last' = [NoLast EXCEPT !.op = "changePattern",
                              !.error = errorAtCall(entryCall(recs', e))]
    /\ UNCHANGED <<field, servicesEncrypted, userSecret, configKeyAES, services,
                   list, label, buttonClass, nextEid>>
    /\ UNCHANGED <<loader, synVars, codecVars>>

\* parseInt(iterationsCountElement.innerText), lines 245 and 257
countShown(e) == parseInt(list[e].iter, 0).v

\* the text of .iterations-count becomes that of n, and its MutationObserver
\* (lines 233-239) runs: service.iterations = parseInt(innerText)
iterationsChanged(e, n) ==
    /\ list' = [list EXCEPT ![e].iter = numberText(n)]
    /\ recs' = [recs EXCEPT ![list[e].svc] = withIterations(@, Num(n))]
    /\ tasks' = withCall(tasks, entryCall(recs', e))

iterationsCountMinimum == 1

\* .action-iterations-increment
ClickIncrement(e) ==
    /\ events < MaxEvents
    /\ Len(tasks) < MaxTasks
    /\ events' = events + 1
    /\ iterationsChanged(e, countShown(e) + 1)
    /\ last' = [NoLast EXCEPT !.op = "increment",
                              !.error = errorAtCall(entryCall(recs', e))]
    /\ UNCHANGED <<field, servicesEncrypted, userSecret, configKeyAES, services,
                   label, buttonClass, nextEid>>
    /\ UNCHANGED <<loader, synVars, codecVars>>

\* .action-iterations-decrement
ClickDecrement(e) ==
    /\ events < MaxEvents
    /\ events' = events + 1
    /\ IF countShown(e) > iterationsCountMinimum
       THEN /\ Len(tasks) < MaxTasks
            /\ iterationsChanged(e, countShown(e) - 1)
            /\ last' = [NoLast EXCEPT !.op = "decrement",
                                      !.error = errorAtCall(entryCall(recs', e))]
       ELSE /\ last' = [NoLast EXCEPT !.op = "decrementIgnored"]
            /\ UNCHANGED <<recs, tasks, list>>
    /\ UNCHANGED <<field, servicesEncrypted, userSecret, configKeyAES, services,
                   label, buttonClass, nextEid>>
    /\ UNCHANGED <<loader, synVars, codecVars>>

-----------------------------------------------------------------------------
(* encryptConfig (lines 306-319): click on #export-config.                 *)

InitVectorSeeds == {0}

\* the init vectors crypto.getRandomValues may draw at line 307
InitVectors ==
    {[i \in 1..BlockLength |-> (seed + 11 * i) % 256] : seed \in InitVectorSeeds}

\* lines 309-316: the file Download.downloadFile is given
exportedFile(key, iv, registry) ==
    LET made == encrypt(key, iv, encodeFromText(stringify(registry)))
    IN  [t |-> "file",
         text |-> downloadFile(decodeToHexString(iv)
                               \o decodeToHexString(made.data)),
         made |-> made]

\* encryptConfig up to its await (lines 307-313): crypto.subtle.encrypt is
\* called with the init vector drawn, the key Config.configKeyAES and the
\* text of Config.services have now
encryptConfigCall(iv) ==
    [NoTask EXCEPT !.kind = "encrypt", !.key = configKeyAES, !.iv = iv,
                   !.before = Registry]

\* click on #export-config
ClickExport(iv) ==
    /\ events < MaxEvents
    /\ events' = events + 1
    /\ IF configKeyAES.t = "undefined"
       THEN \* "No config to export"
            /\ last' = [NoLast EXCEPT !.op = "exportRefused", !.before = Registry]
            /\ UNCHANGED tasks
       ELSE /\ Len(tasks) < MaxTasks
            /\ tasks' = Append(tasks, encryptConfigCall(iv))
            /\ last' = [NoLast EXCEPT !.op = "encryptConfig", !.before = Registry]
    /\ UNCHANGED <<field, servicesEncrypted, userSecret, configKeyAES, recs,
                   services, list, label, buttonClass, nextEid>>
    /\ UNCHANGED <<loader, synVars, codecVars>>

\* the promise of crypto.subtle.encrypt resolves: lines 314-316 hand the
\* file to Download.downloadFile
CompleteEncrypt(i) ==
    /\ tasks[i].kind = "encrypt"
    /\ tasks' = RemoveAt(tasks, i)
    /\ last' = [NoLast EXCEPT !.op = "download", !.before = tasks[i].before,
                              !.file = exportedFile(tasks[i].key, tasks[i].iv,
                                                    tasks[i].before)]
    /\ UNCHANGED <<field, servicesEncrypted, userSecret, configKeyAES, recs,
                   services, list, label, buttonClass, nextEid, events>>
    /\ UNCHANGED <<loader, synVars, codecVars>>

-----------------------------------------------------------------------------

Next ==
    \/ FetchResponse
    \/ \E responseText \in Files : FetchDone(responseText)
    \/ \E c \in TypedChars \cup {Enter} : KeyPress(c)
    \/ \E text \in PastedTexts : Paste(text)
    \/ ClickDecrypt
    \/ ClickDerive
    \/ \E raw \in AddNames : ClickAdd(raw)
    \/ \E e \in 1..Len(list) : ClickDelete(e)
    \/ \E e \in 1..Len(list), p \in PatternChoices : ChangePattern(e, p)
    \/ \E e \in 1..Len(list) : ClickIncrement(e)
    \/ \E e \in 1..Len(list) : ClickDecrement(e)
    \/ \E iv \in InitVectors : ClickExport(iv)
    \/ \E i \in 1..Len(tasks) : CompleteImportKey(i)
    \/ \E i \in 1..Len(tasks) : CompleteDeriveConfigKey(i)
    \/ \E i \in 1..Len(tasks) : CompleteDecrypt(i)
    \/ \E i \in 1..Len(tasks) : CompleteDeriveServiceKey(i)
    \/ \E i \in 1..Len(tasks) : CompleteGetKey(i)
    \/ \E i \in 1..Len(tasks) : CompleteEncrypt(i)

Spec == Init /\ [][Next]_vars

-----------------------------------------------------------------------------
(* SpecSynth: the synthesis of getKey (lines 176-183) as a function of the *)
(* exported key bytes and service.pattern, on drawn inputs.                *)

\* bytes of an exported AES-256 key (length: 256 at line 297)
KeyLength == 32

ByteSteps == {1, 37, 101}

DrawnKey(seed, step, len) == [i \in 1..len |-> (seed + (i - 1) * step) % 256]

SynKeys == {DrawnKey(seed, step, len) :
                seed \in 0..MaxSeed, step \in ByteSteps, len \in 0..KeyLength}

SynPatterns == DeclaredPatterns \cup {Absent, "zz"}

SynthInit ==
    /\ SessionInit
    /\ CodecUnused
    /\ synPattern \in SynPatterns
    /\ synKey \in SynKeys
    /\ synOut = SynIdle

Synthesize ==
    /\ synOut = SynIdle
    /\ synOut' = synthesize(synKey, synPattern)
    /\ UNCHANGED <<synPattern, synKey>>
    /\ UNCHANGED <<sessionVars, codecVars>>

SynthNext == Synthesize

SpecSynth == SynthInit /\ [][SynthNext]_vars

-----------------------------------------------------------------------------
(* SpecLoad: the session from the fetch of data/config.txt to the end of   *)
(* decryptConfig, on the texts of LoadTexts.                               *)

LoadInit == Init

LoadNext ==
    \/ FetchResponse
    \/ \E responseText \in LoadTexts : FetchDone(responseText)
    \/ \E c \in TypedChars \cup {Enter} : KeyPress(c)
    \/ ClickDecrypt
    \/ ClickDerive
    \/ \E i \in 1..Len(tasks) : CompleteImportKey(i)
    \/ \E i \in 1..Len(tasks) : CompleteDeriveConfigKey(i)
    \/ \E i \in 1..Len(tasks) : CompleteDecrypt(i)
    \/ \E i \in 1..Len(tasks) : CompleteDeriveServiceKey(i)
    \/ \E i \in 1..Len(tasks) : CompleteGetKey(i)

SpecLoad == LoadInit /\ [][LoadNext]_vars

-----------------------------------------------------------------------------
(* SpecCodec: Converter.decodeToHexString and Converter.encodeFromHexString *)
(* (convert.js lines 37-61) on drawn byte arrays and hexadecimal texts,    *)
(* each converted and converted back.                                      *)

MaxBytes == 4

\* byte arrays: drawn ones, and the values at the edges of one hex digit
CodecBytes ==
    {DrawnKey(seed, step, len) :
        seed \in 0..MaxSeed, step \in ByteSteps, len \in 0..MaxBytes}
    \cup {<<b>> : b \in {0, 9, 10, 15, 16, 127, 128, 255}}
    \cup {<<0, 255>>, <<255, 0>>, <<15, 16, 0>>}

EdgeDigits == {"0", "9", "a", "f"}

\* lowercase hexadecimal texts of even length: every pair of digits, and the
\* texts of four edge digits
CodecTexts ==
    {<<>>}
    \cup {<<HexDigits[i], HexDigits[j]>> : i \in 1..16, j \in 1..16}
    \cup {<<a, b, c, d>> : a \in EdgeDigits, b \in EdgeDigits,
                             c \in EdgeDigits, d \in EdgeDigits}

CodecInit ==
    /\ SessionInit
    /\ SynUnused
    /\ codecIn \in {[t |-> "bytes", bytes |-> b, hex |-> <<>>] : b \in CodecBytes}
                  \cup {[t |-> "hex", bytes |-> <<>>, hex |-> h] : h \in CodecTexts}
    /\ codecOut = CodecIdle

\* encodeFromHexString(decodeToHexString(bytes))
DecodeThenEncode ==
    /\ codecIn.t = "bytes"
    /\ ~codecOut.done
    /\ LET hex == decodeToHexString(codecIn.bytes)
           back == encodeFromHexString(hex)
       IN  codecOut' = [hex |-> hex, bytes |-> back.bytes,
                        ignored |-> back.ignored, done |-> TRUE]
    /\ UNCHANGED codecIn
    /\ UNCHANGED <<sessionVars, synVars>>

\* decodeToHexString(encodeFromHexString(hex))
EncodeThenDecode ==
    /\ codecIn.t = "hex"
    /\ ~codecOut.done
    /\ LET array == encodeFromHexString(codecIn.hex)
       IN  codecOut' = [hex |-> decodeToHexString(array.bytes),
                        bytes |-> array.bytes, ignored |-> array.ignored,
                        done |-> TRUE]
    /\ UNCHANGED codecIn
    /\ UNCHANGED <<sessionVars, synVars>>

CodecNext == DecodeThenEncode \/ EncodeThenDecode

SpecCodec == CodecInit /\ [][CodecNext]_vars

-----------------------------------------------------------------------------
(* Properties of the registry.                                             *)

\* ascending by name: no record is followed by one with a smaller name
IsSortedByName(items) ==
    \A i \in 1..(Len(items) - 1) : ~StrLess(items[i + 1].name, items[i].name)

NamesUnique(items) ==
    \A i, j \in 1..Len(items) : i # j => items[i].name # items[j].name

CountIn(items, r) == Cardinality({i \in 1..Len(items) : items[i] = r})

CountNamed(items, name) ==
    Cardinality({i \in 1..Len(items) : items[i].name = name})

\* addService added a record in the last step
AddedRecord == last.op = "addService" /\ last.ret # 0

\* C1: after any sequence of load, addService and removeService no two
\* records of Config.services have the same name.
C1_NoTwoRecordsShareName ==
    services.t = "array" => NamesUnique(Registry.items)

\* C2 as claimed: after every mutation of the registry, the wholesale
\* replacement by a successful decryptConfig included, Config.services is
\* sorted by name ascending.
C2_SortedAfterEveryMutation ==
    services.t = "array" => IsSortedByName(Registry.items)

\* C2 amended: after every addService call that adds a record the registry is
\* sorted by name ascending; removeService keeps a sorted registry sorted and
\* a duplicate addService leaves the order as it is (decryptConfig installs
\* the list in the order of the file).
C2_SortedAfterAdd ==
    /\ AddedRecord => IsSortedByName(Registry.items)
    /\ (last.op = "removeService" /\ last.error = "none"
            /\ IsSortedByName(last.before.items))
         => IsSortedByName(Registry.items)
    /\ last.op = "addDuplicate" => Registry.items = last.before.items

\* C2 witness: addService added a record to a registry that was loaded
\* unsorted, so the sort had to move the other records.
C2_Witness ==
    /\ AddedRecord
    /\ ~IsSortedByName(last.before.items)
    /\ Len(Registry.items) = 3

\* C3: when decryptConfig ends in its failure branch the registry is what it
\* was before the invocation started.
C3_FailureLeavesRegistry ==
    last.op = "decryptFailed" => Registry = last.before

\* C4: a password computed by a getKey call that started under an earlier
\* master secret is not rendered once Config.userSecret has been replaced:
\* every password put on the page is derived from the current secret.
C4_StaleDerivationsDiscarded ==
    last.pw # NoPassword =>
        userSecret.t = "PBKDF2" /\ last.pw.secret = userSecret.secret

\* C5: in every state another handler can observe, Config.configKeyAES is the
\* config key of the master secret Config.userSecret was imported from.
C5_KeysFromSameSecret ==
    configKeyAES =
        IF userSecret.t = "PBKDF2"
        THEN deriveKey(userSecret, ConfigSalt, ConfigIterations)
        ELSE NoKey

\* C9: addService with a name that, trimmed, names an existing record changes
\* nothing, returns nothing, leaves exactly one record of that name, and the
\* add handler raises no error.
C9_DuplicateAddIsNoOp ==
    last.op = "addDuplicate" =>
        /\ Registry = last.before
        /\ last.ret = 0
        /\ CountNamed(Registry.items, Trim(last.name)) = 1
        /\ last.error = "none"

\* C10: addService with a name whose trimmed form is not in the registry adds
\* exactly one record {name: trimmed name, iterations: 1, pattern absent},
\* leaves every other record as it was, and returns the created record.
C10_AddCreatesRecord ==
    AddedRecord =>
        LET created == Service(Trim(last.name), Num(1), Absent,
                               <<NameKey, IterationsKey>>)
            others == SelectSeq(services.a, LAMBDA id : id # last.ret)
        IN  /\ recs[last.ret] = created
            /\ Len(others) = Len(services.a) - 1
            /\ Len(Registry.items) = Len(last.before.items) + 1
            /\ \A i \in 1..Len(last.before.items) :
                  CountIn(RegistryOf(recs, [t |-> "array", a |-> others]).items,
                          last.before.items[i])
                    = CountIn(last.before.items, last.before.items[i])

\* C10 witness: a name typed with a leading blank was added to a registry
\* that still holds another record.
C10_Witness ==
    /\ AddedRecord
    /\ last.name # Trim(last.name)
    /\ Len(Registry.items) = 2

\* the records of items whose name is not name, in their order
WithoutName(items, name) == SelectSeq(items, LAMBDA r : r.name # name)

RemovedByName == last.op = "removeService" /\ last.error = "none"

\* C11: removeService(name) removes every record whose name is exactly name
\* and keeps all other records, fields and relative order unchanged; when no
\* record has that name the registry content is unchanged, so a second
\* removeService(name) gives the registry the first one gave.
C11_RemoveByExactName ==
    RemovedByName =>
        /\ Registry.items = WithoutName(last.before.items, last.name)
        /\ CountNamed(Registry.items, last.name) = 0
        /\ CountNamed(last.before.items, last.name) = 0 =>
              Registry.items = last.before.items
        /\ removeService(recs, services.a, last.name) = services.a

\* C11 witness: the second of two removals of the same name, the first of
\* which removed every record of that name; the second finds none.
C11_Witness ==
    /\ RemovedByName
    /\ CountNamed(last.before.items, last.name) = 0
    /\ \E id \in 1..Len(recs) : recs[id].name = last.name
    /\ events = 3

EmptyRegistry == [t |-> "array", items |-> <<>>]

\* C12: before any successful decryptConfig the registry is an empty
\* sequence: addService, removeService, deriveServiceKeys and encryptConfig
\* called in that state work on an empty registry and raise no error.
C12_OperationsBeforeLoad ==
    (/\ services.t = "undefined"
     /\ last.op \in {"addService", "removeService", "deriveServiceKeys",
                     "encryptConfig"}) =>
        /\ last.before = EmptyRegistry
        /\ last.error = "none"

\* the files whose plaintext is no list of services
NoListTexts == {fileText(p) : p \in {"invalid", "null", "object", "number"}}

\* C14: when decryption succeeds but the plaintext is no valid service list
\* (no JSON, or JSON that is an object, a number or null) decryptConfig ends
\* as for a decryption failure: "Wrong main key" is reported, #decrypt-config
\* ends with btn-danger and the registry is unchanged.
C14_NoListPlaintextIsFailure ==
    (/\ servicesEncrypted.text \in NoListTexts
     /\ last.op \in {"decryptFailed", "decryptParsed", "decryptDone"}
     /\ last.error # "OperationError") =>
        /\ last.op = "decryptFailed"
        /\ buttonClass = "btn-danger"
        /\ Registry = last.before

\* an iterations value that is an integer or a string of digits
Numeric(iterations) ==
    \/ iterations.t = "number"
    \/ iterations.t = "string" /\ IsDigits(iterations.text)

\* the integer a numeric iterations value is or spells
IntegerOf(iterations) ==
    IF iterations.t = "number" THEN iterations.v
    ELSE DigitsValue(iterations.text, 0)

\* an iterations value that is a number, or spells one, and is at least 1
AtLeastOne(iterations) == Numeric(iterations) /\ IntegerOf(iterations) >= 1

\* C15: once deriveServiceKeys has normalized a load, every record of the
\* registry has an integer iterations >= 1, for any loaded configuration (a
\* stored 0 included); addService and the increment and decrement buttons
\* keep it so, and so every record shown in the list has iterations >= 1.
C15_IterationsAtLeastOne ==
    /\ (last.op = "decryptDone" /\ tasks = <<>> /\ services.t = "array") =>
          \A i \in 1..Len(Registry.items) :
              AtLeastOne(Registry.items[i].iterations)
    /\ AddedRecord => AtLeastOne(recs[last.ret].iterations)
    /\ \A e \in 1..Len(list) : AtLeastOne(recs[list[e].svc].iterations)

\* the services as the file stores them
Stored == storedIn(servicesEncrypted.text)

\* a load ran to its end and no other event happened in the session
LoadedUndisturbed == last.op = "decryptDone" /\ events = 1

\* iterations that are absent or that parseInt reads no integer from
Unparseable(iterations) ==
    iterations.t = "undefined" \/ parseInt10(iterations).nan

\* C16: after deriveServiceKeys has processed a loaded registry every record
\* stored without iterations, or with iterations that parse to no integer, has
\* iterations = 1 on the record, so that 1 is exported, and every record
\* stored with a parseable integer keeps the stored value.
C16_MissingIterationsBecomeOne ==
    LoadedUndisturbed =>
        /\ Len(Registry.items) = Len(Stored)
        /\ \A i \in 1..Len(Stored) :
              IF Unparseable(Stored[i].iterations)
              THEN /\ Registry.items[i].iterations = Num(1)
                   /\ MemberOf(membersOf(Registry.items[i]), IterationsKey)
                         = member(IterationsKey, "number", <<"1">>)
              ELSE Registry.items[i].iterations = Stored[i].iterations

\* C16 witness: a loaded file that stores one record with iterations "03" and
\* one without iterations.
C16_Witness ==
    /\ LoadedUndisturbed
    /\ \E i \in 1..Len(Stored) :
          Stored[i].iterations = NoIter /\ Registry.items[i].iterations = Num(1)
    /\ \E i \in 1..Len(Stored) :
          Stored[i].iterations = Str(<<"0", "3">>)
          /\ Registry.items[i].iterations = Str(<<"0", "3">>)

\* C17: the PBKDF2 call that derives the service key of a record uses the
\* record's name as salt and the arithmetic sum 1000 + n as iteration count,
\* n being the record's iterations, whether it is stored as a number or as a
\* numeric string ("3" gives 1003, and so does "03").
C17_ServiceKeyParameters ==
    \A i \in 1..Len(tasks) :
        (tasks[i].kind = "getKey" /\ Numeric(tasks[i].iterations)) =>
            /\ tasks[i].key.salt = recs[tasks[i].svc].name
            /\ tasks[i].key.count
                  = ServiceIterationsBase + IntegerOf(tasks[i].iterations)

\* the file that stores a record with the pattern zz
UnknownPatternText == fileText("unknownPattern")

\* a pattern that is set and is no key of Patterns.templates
Undeclared(pattern) == pattern # Absent /\ pattern \notin DeclaredPatterns

\* C18: a record whose pattern is no declared key stays in the registry with
\* its pattern as stored, and the synthesis for it fails with an error raised
\* in getKey: no password is produced or shown for it.
\* (A load under another key ends before line 133, with OperationError or,
\* when the noise keeps a valid padding, with the SyntaxError of JSON.parse.)
C18_UndeclaredPatternFailsAtSynthesis ==
    /\ \A e \in 1..Len(list) : ~Undeclared(recs[list[e].svc].pattern)
    /\ last.pw # NoPassword => last.pw.pattern \in DeclaredPatterns
    /\ (servicesEncrypted.text = UnknownPatternText /\ services.t = "array") =>
          \A i \in 1..Len(Stored) : CountIn(Registry.items, Stored[i]) = 1
    /\ (/\ servicesEncrypted.text = UnknownPatternText
        /\ last.op \in {"decryptFailed", "decryptDone"}
        /\ last.error \notin {"OperationError", "SyntaxError"}) =>
          last.op = "decryptFailed" /\ last.error = "TypeError"

\* C18 witness: the load of a file with the pattern zz has failed in getKey;
\* the record is in the registry as stored and the list is empty.
C18_Witness ==
    /\ servicesEncrypted.text = UnknownPatternText
    /\ last.op = "decryptFailed"
    /\ last.error = "TypeError"
    /\ Registry.items = Stored
    /\ Undeclared(Registry.items[1].pattern)
    /\ list = <<>>

-----------------------------------------------------------------------------
(* Properties of the keys in use and of the rendered list.                 *)

\* the keys of the text the input field holds now
CurrentRootKey == importKey(Trim(field))
CurrentConfigKey == deriveKey(CurrentRootKey, ConfigSalt, ConfigIterations)

\* the last step called getKey for a record and suspended at its await
StartedGetKey ==
    \/ last.op = "deriveServiceKeys" /\ last.error = "none"
          /\ last.before.items # <<>>
    \/ last.op = "addService" /\ last.ret # 0
    \/ last.op \in {"changePattern", "increment", "decrement"}

\* C21: whenever decryptConfig or encryptConfig uses the config key, or
\* deriveServiceKeys or getKey uses the root key, the key is the one derived
\* from the text the input field holds at that moment: no operation runs
\* with a key of an earlier value of the input.
C21_KeysOfCurrentInput ==
    /\ (last.op = "decryptConfig" /\ last.error = "none") =>
            configKeyAES = CurrentConfigKey
    /\ last.op = "encryptConfig" => tasks[Len(tasks)].key = CurrentConfigKey
    /\ StartedGetKey =>
            /\ userSecret = CurrentRootKey
            /\ tasks[Len(tasks)].key.secret = CurrentRootKey.secret

\* the step completes a service of a deriveServiceKeys run: getKey resolves
\* for task i, the entry is rendered and lines 161-164 write the label
CompletesService(i) ==
    /\ tasks[i].kind = "exportKey"
    /\ tasks[i].cont = "run"
    /\ CompleteGetKey(i)
    /\ last'.error = "none"

\* the count the label shows while services are derived; a label left by a
\* finished run, or the initial text, counts as no service loaded yet
ShownCount == IF label.t = "progress" THEN label.loaded ELSE 0

\* C22: the count of loaded services shown in #decrypt-config never decreases
\* and rises by exactly 1 with every completed service, up to the number of
\* records of the registry, also when deriveServiceKeys is started again
\* while an earlier run is in flight.
C22_ProgressCountRisesByOne ==
    [][\A i \in 1..Len(tasks) :
          CompletesService(i) =>
              /\ label'.loaded = ShownCount + 1
              /\ label'.loaded <= Len(services'.a)]_vars

\* s[i..j] is a non-empty run of word characters
IsWord(s, i, j) == i <= j /\ \A k \in i..j : IsWordChar(s[k])

\* the minimal domain-like form: somewhere in the name word characters, a
\* dot, word characters
HasDomainForm(name) ==
    \E d \in 1..Len(name) :
        /\ name[d] = "."
        /\ \E i \in 1..(d - 1) : IsWord(name, i, d - 1)
        /\ \E j \in (d + 1)..Len(name) : IsWord(name, d + 1, j)

\* C23: an add request whose trimmed name has not the minimal domain-like
\* form is rejected before any mutation: registry, records, pending calls
\* and the rendered list stay as they are; and every name the add handler
\* hands to Config.addService has that form.
C23_InvalidNameRejected ==
    /\ last.op = "addRejected" =>
            /\ ~HasDomainForm(Trim(last.name))
            /\ Registry = last.before
            /\ tasks = last.pending
            /\ list = last.shown
    /\ last.op \in {"addService", "addDuplicate"} =>
            HasDomainForm(Trim(last.name))

C23_Witness ==
    /\ last.op = "addRejected"
    /\ ~HasDomainForm(Trim(last.name))
    /\ Len(Registry.items) = 2
    /\ list # <<>>

\* passwords of the page for values of (master secret, service name,
\* iterations, pattern), computed apart from any session: PBKDF2-HMAC-SHA-512
\* of the secret with the name as salt and the count of line 174, 32 bytes,
\* put through the templates of patterns.js
ReferencePasswords == <<
    [call |-> [secret |-> <<>>, name |-> <<"a", ".", "b">>, iterations |-> Num(1),
               pattern |-> "c16"],
     password |-> <<"v", "N", "C", "Y", "I", "W", "1", "n", "X", "@", "*", "n", "J", "v", "*", "s">>],
    [call |-> [secret |-> <<>>, name |-> <<"b", ".", "a">>, iterations |-> Num(2),
               pattern |-> "n4"],
     password |-> <<"2", "4", "1", "9">>],
    [call |-> [secret |-> <<>>, name |-> <<"a", ".", "b">>, iterations |-> Num(2),
               pattern |-> "c16"],
     password |-> <<"k", "z", "X", "U", "v", "l", "8", "v", "q", "%", "2", "s", "n", "e", "x", "n">>],
    [call |-> [secret |-> <<>>, name |-> <<"a", ".", "b">>, iterations |-> Num(1),
               pattern |-> "n4"],
     password |-> <<"5", "3", "4", "2">>],
    [call |-> [secret |-> <<"p">>, name |-> <<"b", ".", "a">>, iterations |-> Num(2),
               pattern |-> "n4"],
     password |-> <<"9", "2", "5", "9">>],
    [call |-> [secret |-> <<>>, name |-> <<"b", ".", "a">>, iterations |-> Str(<<"0", "3">>),
               pattern |-> "c8"],
     password |-> <<"b", "H", "4", "@", "M", "6", "f", "d">>],
    [call |-> [secret |-> <<>>, name |-> <<"A", ".", "b">>, iterations |-> Num(1),
               pattern |-> "c16"],
     password |-> <<"w", "Y", "0", "$", "l", "J", "e", "V", "E", "u", "n", "l", "T", "w", "l", "x">>],
    [call |-> [secret |-> <<>>, name |-> <<"a", ".", "b">>, iterations |-> Num(1),
               pattern |-> Absent],
     password |-> <<"v", "N", "C", "Y", "I", "W", "1", "n", "X", "@", "*", "n", "J", "v", "*", "s">>] >>

\* C24: the password shown for a service is a function of the master secret,
\* the service name, the iterations and the pattern its getKey call read:
\* two entries whose calls read equal values show the same characters, and an
\* entry whose call read the values of a reference password shows that
\* password, whatever was added, removed, changed or derived before.
C24_PasswordIsFunctionOfInputs ==
    /\ \A e1, e2 \in 1..Len(list) :
          list[e1].call = list[e2].call => list[e1].text = list[e2].text
    /\ \A e \in 1..Len(list) : \A v \in 1..Len(ReferencePasswords) :
          list[e].call = ReferencePasswords[v].call =>
              list[e].text = ReferencePasswords[v].password

\* C24 witness: two entries made by two getKey calls of overlapping runs
\* that read equal values show the same 16 characters, those of the
\* reference password of these values, while the list was cleared and
\* another run was started in between.
C24_Witness ==
    \E e1, e2 \in 1..Len(list) :
        /\ list[e1].eid # list[e2].eid
        /\ list[e1].call = list[e2].call
        /\ list[e1].text = list[e2].text
        /\ Len(list[e1].text) = 16
        /\ \E v \in 1..Len(ReferencePasswords) :
              /\ ReferencePasswords[v].call = list[e1].call
              /\ ReferencePasswords[v].password = list[e1].text

\* C25: decryptConfig raises no unhandled error whatever the order of the
\* events: started before the fetch of data/config.txt has ended, it ends in
\* its failure branch ("Wrong main key") like any other failed attempt.
C25_DecryptBeforeFetchIsHandled ==
    /\ last.op = "decryptConfig" => last.error = "none"
    /\ (last.op = "decryptConfig" /\ servicesEncrypted.t = "undefined") =>
            \E i \in 1..Len(tasks) : tasks[i].kind = "decrypt"

\* no invocation is suspended at an await
Quiet == tasks = <<>>

\* the records the entries of .service-list were rendered for, in order
RenderedRecords == [e \in 1..Len(list) |-> list[e].svc]

\* every record of the registry can be rendered: its pattern is declared
Renderable ==
    \A k \in 1..Len(services.a) :
        defaultPattern(recs[services.a[k]].pattern) \in DeclaredPatterns

\* C26: once every pending derivation has completed, .service-list holds
\* exactly one entry per record of the registry, in registry order, and no
\* entry of a record that is not in the registry, also after overlapping
\* deriveServiceKeys runs and after adds and removals during a run.
C26_ListMatchesRegistry ==
    (Quiet /\ services.t = "array" /\ Renderable /\ label.t = "final") =>
        RenderedRecords = services.a

\* C27: once every pending getKey call has completed, the password shown in
\* an entry is the one of the iterations and the pattern its record has now:
\* the result of an earlier change that completes late does not replace the
\* result of the latest change.
C27_LatestChangeWins ==
    Quiet =>
        \A e \in 1..Len(list) :
            /\ list[e].pw.count = iterationCount(recs[list[e].svc].iterations)
            /\ list[e].pw.pattern = defaultPattern(recs[list[e].svc].pattern)

\* the PBKDF2 parameters of the config key (lines 114-116)
IsConfigKeyOf(key) == key.salt = ConfigSalt /\ key.count = ConfigIterations

\* C28: key separation.  For every record that can be in the registry the
\* salt and the iteration count getKey derives its service key with differ
\* from ("config", 1000), so no password shown is synthesized from the bytes
\* of the config key.
C28_ServiceKeyIsNotConfigKey ==
    /\ \A i \in 1..Len(tasks) :
          tasks[i].kind = "getKey" => ~IsConfigKeyOf(tasks[i].key)
    /\ \A e \in 1..Len(list) :
          ~(list[e].pw.name = ConfigSalt /\ list[e].pw.count = ConfigIterations)

-----------------------------------------------------------------------------
(* Properties of the load.                                                 *)

IsLowerHex(text) ==
    \A i \in 1..Len(text) : \E d \in 1..16 : HexDigits[d] = text[i]

\* a blob text that is too short for the init vector, of odd length, or has a
\* character that is no hexadecimal digit
Malformed(text) ==
    \/ Len(text) < initVectorLength
    \/ Len(text) % 2 = 1
    \/ ~IsLowerHex(text)

\* C13: for every malformed blob text (shorter than 32 characters, of odd
\* length, empty, or with a character that is no hexadecimal digit)
\* decryptConfig ends in its failure branch with the registry unchanged (a
\* write behind the end of a typed array is ignored by the array and changes
\* no byte).
C13_MalformedBlobFails ==
    (/\ last.op \in {"decryptFailed", "decryptParsed", "decryptDone"}
     /\ Malformed(servicesEncrypted.text)) =>
        /\ last.op = "decryptFailed"
        /\ Registry = last.before

\* encryptConfig has handed a file to the download in the last step
Exported == last.op = "download"

\* C20: export and load are a round trip.  The text encryptConfig produces is
\* the 32 lowercase hexadecimal characters of the 16-byte init vector followed
\* by those of the ciphertext; downloadFile writes it in lines of 120
\* characters; after the loader has trimmed it and removed the line ends,
\* decryptConfig with the same config key splits it at character 32 and
\* restores a registry equal to the exported one, for every state in which
\* the export produces a file.
C20_ExportLoadRoundTrip ==
    Exported =>
        LET made == last.file.made
            text == loadResponseText(last.file.text)
            out == decryptConfig(text, made.key)
        IN  /\ Len(made.iv) = BlockLength
            /\ text = decodeToHexString(made.iv) \o decodeToHexString(made.data)
            /\ Len(decodeToHexString(made.iv)) = initVectorLength
            /\ IsLowerHex(text)
            /\ \A i \in 1..Len(last.file.text) :
                  (last.file.text[i] = LineFeed) <=>
                      (i % (limit + 1) = 0 \/ i = Len(last.file.text))
            /\ out.installed
            /\ out.error = "none"
            /\ [t |-> out.kind, items |-> out.read] = last.before

-----------------------------------------------------------------------------
(* Properties of the synthesis.                                            *)

\* length of the templates of a declared pattern
PatternLength(p) ==
    CASE p \in {"c16", "y16"} -> 16
      [] p = "c12" -> 12
      [] p = "c8" -> 8
      [] p = "n6" -> 6
      [] p = "n5" -> 5
      [] OTHER -> 4

Synthesized == synOut # SynIdle

CharsOf(alphabet) == {alphabet[i] : i \in 1..Len(alphabet)}

Contains(password, alphabet) ==
    \E i \in 1..Len(password) : password[i] \in CharsOf(alphabet)

\* starts and ends with a character of the alphabet
Framed(password, alphabet) ==
    /\ password # <<>>
    /\ password[1] \in CharsOf(alphabet)
    /\ password[Len(password)] \in CharsOf(alphabet)

\* the password has the character classes of the c patterns
HasClassesOfC(password) ==
    /\ Framed(password, LowerLetters)
    /\ Contains(password, UpperLetters)
    /\ Contains(password, Digits)
    /\ Contains(password, Symbols)

\* the password has the character classes of y16
HasClassesOfY(password) ==
    /\ Contains(password, UpperLetters)
    /\ Contains(password, Digits)
    /\ ~Contains(password, Symbols)

\* C29: a password of pattern c16, c12 or c8 starts and ends with a
\* lowercase letter and contains an uppercase letter, a digit and a symbol of
\* !#$%*@; a password of pattern y16 contains an uppercase letter and a digit
\* and no symbol.  This holds for every key that has a byte for each position
\* of the template, as the 32 bytes exportKey gives for an AES-256 key have.
C29_CharacterClasses ==
    (Synthesized /\ synPattern \in {"c16", "c12", "c8", "y16"}
        /\ Len(synKey) >= PatternLength(synPattern) + 1) =>
        /\ synOut.error = "none"
        /\ synPattern \in {"c16", "c12", "c8"} => HasClassesOfC(synOut.password)
        /\ synPattern = "y16" => HasClassesOfY(synOut.password)

\* C29 witness: a y16 password from 32 key bytes, the byte of a position y
\* being one that would select a symbol in the alphabet of x.
C29_Witness ==
    /\ Synthesized
    /\ synPattern = "y16"
    /\ Len(synKey) = KeyLength
    /\ LET set == templates("y16")
           T == set[(synKey[1] % Len(set)) + 1]
       IN  \E i \in 1..Len(T) :
               /\ T[i] = "y"
               /\ synKey[i + 1] % Len(keycharacters("x"))
                     >= Len(keycharacters("y"))
    /\ HasClassesOfY(synOut.password)
    /\ Len(synOut.password) = 16

\* C6: for a declared pattern p and 32 key bytes k the password is, position
\* by position, alphabet(T[i])[k[i+1] mod |alphabet(T[i])|] for the template
\* T = templates[p][k[0] mod |templates[p]|]; k[0] only selects the template.
C6_SynthesisMatchesReference ==
    (Synthesized /\ synPattern \in DeclaredPatterns /\ Len(synKey) = KeyLength) =>
        LET set == templates(synPattern)
            T == set[(synKey[1] % Len(set)) + 1]
        IN  /\ synOut.error = "none"
            /\ Len(synOut.password) = Len(T)
            /\ \A i \in 1..Len(T) :
                  LET alphabet == keycharacters(T[i])
                  IN  synOut.password[i]
                        = alphabet[(synKey[i + 1] % Len(alphabet)) + 1]

\* C6 witness: a c16 password from 32 bytes, with the third template chosen
\* and a byte beyond the size of the largest alphabet.
C6_Witness ==
    /\ Synthesized
    /\ synPattern = "c16"
    /\ Len(synKey) = KeyLength
    /\ synKey[1] % 4 = 2
    /\ \E i \in 2..17 : synKey[i] > 200
    /\ synOut.error = "none"

\* C7: with at least templateLength + 1 key bytes the password has the length
\* of the template: 16 for c16 and y16, 12 for c12, 8 for c8, and 6, 5, 4
\* digits for n6, n5, n4.
C7_PasswordLength ==
    (Synthesized /\ synPattern \in DeclaredPatterns
        /\ Len(synKey) >= PatternLength(synPattern) + 1) =>
        /\ synOut.error = "none"
        /\ Len(synOut.password) = PatternLength(synPattern)
        /\ synPattern \in {"n6", "n5", "n4"} =>
              \A i \in 1..Len(synOut.password) :
                  synOut.password[i] \in CharsOf(Digits)

\* C7 witness: n4 from exactly 5 key bytes, one of them above 9.
C7_Witness ==
    /\ Synthesized
    /\ synPattern = "n4"
    /\ Len(synKey) = 5
    /\ \E i \in 2..5 : synKey[i] > 9
    /\ Len(synOut.password) = 4

\* C19: for a record without pattern the synthesis uses the first declared
\* pattern key, c16: the password is, position by position, the one the c16
\* template chosen by the first key byte gives for the same key bytes.
C19_AbsentPatternIsC16 ==
    (Synthesized /\ synPattern = Absent /\ Len(synKey) = KeyLength) =>
        LET set == templates("c16")
            T == set[(synKey[1] % Len(set)) + 1]
        IN  /\ PatternKeys[1] = "c16"
            /\ synOut.error = "none"
            /\ Len(synOut.password) = 16
            /\ \A i \in 1..16 :
                  LET alphabet == keycharacters(T[i])
                  IN  synOut.password[i]
                        = alphabet[(synKey[i + 1] % Len(alphabet)) + 1]

\* C19 witness: a password synthesized from 32 key bytes for a record
\* without pattern, with the second c16 template chosen.
C19_Witness ==
    /\ Synthesized
    /\ synPattern = Absent
    /\ Len(synKey) = KeyLength
    /\ synKey[1] % 4 = 1
    /\ synOut.error = "none"
    /\ Len(synOut.password) = 16

-----------------------------------------------------------------------------
(* Properties of the hexadecimal codec.                                    *)

\* the number two hexadecimal digits spell, written out digit by digit
DigitNumber(c) ==
    CASE c = "0" -> 0 [] c = "1" -> 1 [] c = "2" -> 2 [] c = "3" -> 3
      [] c = "4" -> 4 [] c = "5" -> 5 [] c = "6" -> 6 [] c = "7" -> 7
      [] c = "8" -> 8 [] c = "9" -> 9 [] c = "a" -> 10 [] c = "b" -> 11
      [] c = "c" -> 12 [] c = "d" -> 13 [] c = "e" -> 14 [] c = "f" -> 15
      [] OTHER -> -1

\* C30: for every byte sequence b, decodeToHexString(b) has exactly 2 * |b|
\* lowercase hexadecimal digits, two per byte with a leading zero where
\* needed, and encodeFromHexString gives b back; for every lowercase
\* hexadecimal text h of even length decodeToHexString(encodeFromHexString(h))
\* is h.
C30_HexRoundTrip ==
    codecOut.done =>
        /\ codecIn.t = "bytes" =>
              /\ Len(codecOut.hex) = 2 * Len(codecIn.bytes)
              /\ \A i \in 1..Len(codecIn.bytes) :
                    /\ DigitNumber(codecOut.hex[2 * i - 1]) >= 0
                    /\ DigitNumber(codecOut.hex[2 * i]) >= 0
                    /\ 16 * DigitNumber(codecOut.hex[2 * i - 1])
                          + DigitNumber(codecOut.hex[2 * i]) = codecIn.bytes[i]
              /\ codecOut.bytes = codecIn.bytes
        /\ codecIn.t = "hex" =>
              /\ Len(codecOut.bytes) * 2 = Len(codecIn.hex)
              /\ codecOut.hex = codecIn.hex

C30_Witness ==
    /\ codecOut.done
    /\ codecIn.t = "bytes"
    /\ Len(codecIn.bytes) = 3
    /\ codecIn.bytes[1] = 15
    /\ codecOut.hex = <<"0", "f", "1", "0", "0", "0">>
    /\ codecOut.bytes = codecIn.bytes

====
